---- MODULE Spec2Model ----
(***************************************************************************)
(* Model of the anomaly-detection engine of health-monitor-backend         *)
(* (src/services/anomalyDetector.js): the per-patient rolling window, the  *)
(* four evaluators, the aggregation in detectAnomalies, the score, the     *)
(* anomaly history, the retrospective replay with its deduplication, and   *)
(* the route POST /api/anomalies/retrospective that starts a replay.       *)
(*                                                                         *)
(* Units.  JavaScript numbers with decimals are kept as scaled integers:   *)
(*   spo2 and bodyTemperature in tenths (98.0 % = 980, 38.5 C = 385),      *)
(*   motionLevel in hundredths (0.15 = 15), timestamps in seconds.         *)
(* bloodPressure "S/D" is kept as the pair <<S, D>>; the code parses the   *)
(* string and uses the first number only.                                  *)
(***************************************************************************)
EXTENDS Integers, Sequences, FiniteSets, TLC

VARIABLES
  dataWindow,      \* [detector -> [patient -> sequence of vitals]]   this.dataWindow
  anomalyHistory,  \* [detector -> [patient -> sequence of entries]]  this.anomalyHistory
  HealthRecord,    \* [detector -> BOOLEAN]  the model is injected
  result,          \* what the last detectAnomalies call returned
  hour,            \* new Date().getHours() of the process
  alertList,       \* argument of the last calculateAnomalyScore call
  scoreOut,        \* what that call returned
  patients,        \* database: [patient -> "active", "inactive" or "absent"]
  healthRecords,   \* database: [patient -> stored samples, in insertion order]
  anomalies,       \* database: sequence of persisted anomaly records
  alertLogs,       \* database: sequence of persisted alert-log entries
  run,             \* the retrospective run in progress (or finished)
  prevRun,         \* summary and options of the run that finished before it
  calls,           \* [patient -> add/detect calls on the live detector since reset]
  returned,        \* [patient -> the results with an alert that detectAnomalies has
                   \*  returned on the live detector since reset, in call order]
  loaded,          \* [patient -> loadHistoricalData pushed into the live window since reset]
  loading,         \* [detector -> [patient -> the loadHistoricalData calls awaiting their query]]
  lastCall,        \* the last window operation: its arguments and the window before it
  steps,           \* operations performed so far (counted up to MaxSteps)
  cycles           \* the performHealthCheck calls of the monitoring service and its clock

vars == <<dataWindow, anomalyHistory, HealthRecord, result, hour, alertList,
          scoreOut, patients, healthRecords, anomalies, alertLogs, run, prevRun, calls,
          returned, loaded, loading, lastCall, steps, cycles>>

detVars == <<dataWindow, anomalyHistory, HealthRecord, result>>
scoreVars == <<alertList, scoreOut>>
dbVars == <<patients, healthRecords, anomalies, alertLogs>>
runVars == <<run, prevRun>>

(***************************************************************************)
(* Program constants                                                       *)
(***************************************************************************)
WindowCap == 288
HistoryCap == 100
FallThreshold == 80
FeverTemp == 385
HypothermiaTemp == 350
MinStatWindow == 12
MinBehaviorWindow == 6
Spo2TrendLimit == -50
LoadLimit == 288
ContextLimit == 50
ScoreCap == 100

(***************************************************************************)
(* Bounds of the model                                                     *)
(***************************************************************************)
MaxSteps == 1        \* operations counted after Init
MaxInitLen == 13     \* longest constant initial window in Spec
MaxAlerts == 6       \* longest alert list handed to calculateAnomalyScore
MaxCalls == 290      \* add/detect calls per reset in SpecWindow
MaxRecords == 8      \* stored samples of the longest history in SpecRetro
MaxHistCalls == 127  \* detectAnomalies calls per reset in SpecHistory
MaxCycles == 2       \* performHealthCheck calls of the monitoring service in SpecCycles
MaxLoads == 1        \* loadHistoricalData calls awaiting their query at a time in SpecWindow

Detectors == {"live", "retro"}
\* the route running its replays on the detector of the monitoring service
sharedDetector == "live"
\* const retrospectiveDetector = new AnomalyDetector(), the route's own
retrospectiveDetector == "retro"
Patients == {"P001", "P002"}
Hours == {6, 7, 22}

\* config/patients.js, alertThresholds of P001 and P002 (spo2 in tenths)
Profile(p) ==
  IF p = "P001"
  THEN [patientId |-> "P001", hrCritical |-> <<45, 130>>,
        bpCritical |-> <<180, 90>>, spo2Critical |-> 920]
  ELSE [patientId |-> "P002", hrCritical |-> <<50, 120>>,
        bpCritical |-> <<160, 100>>, spo2Critical |-> 930]

Min(a, b) == IF a < b THEN a ELSE b
Max(a, b) == IF a > b THEN a ELSE b
\* e, with x computed before it, as a JavaScript operand is before its operator
After(x, e) == IF x = x THEN e ELSE e
\* the count of operations, kept up to MaxSteps
StepsAfter == IF steps < MaxSteps THEN steps + 1 ELSE steps
Abs(x) == IF x < 0 THEN -x ELSE x

\* Array.prototype.slice(-k)
SliceLast(s, k) == SubSeq(s, Len(s) - Min(k, Len(s)) + 1, Len(s))

RECURSIVE SumRange(_, _, _)
\* s[lo] + ... + s[hi], summed by halves (integer addition is associative)
SumRange(s, lo, hi) ==
  IF lo > hi THEN 0
  ELSE IF lo = hi THEN s[lo]
  ELSE LET mid == (lo + hi) \div 2
       IN SumRange(s, lo, mid) + SumRange(s, mid + 1, hi)

\* the sum of a sequence of integers: reduce((a, b) => a + b)
SumOf(s) == SumRange(s, 1, Len(s))

Map(s, Op(_)) == [i \in 1..Len(s) |-> Op(s[i])]
Count(s, Test(_)) == Cardinality({i \in 1..Len(s) : Test(s[i])})

(***************************************************************************)
(* JavaScript Numbers.  A Number is an IEEE-754 double; the ones a         *)
(* computation of the detector can produce are finite and normal, and are  *)
(* kept as [neg, m, e] for the value (-1)^neg * m * 2^e, with m = <<>> for *)
(* zero and 2^52 <= m < 2^53 otherwise.  m is a natural number written in  *)
(* limbs of LimbBits bits, least significant first, so that a product of   *)
(* two limbs stays below 2^31.  Every operation computes the exact result  *)
(* and rounds it to the nearest double, ties to even.                      *)
(***************************************************************************)
\* the significand of a double has 53 bits
Precision == 53

PowersOfTwo ==
  <<1, 2, 4, 8, 16, 32, 64, 128, 256, 512, 1024, 2048, 4096, 8192, 16384>>

\* 2^k, for 0 <= k <= LimbBits
Pow2(k) == PowersOfTwo[k + 1]

LimbBits == Len(PowersOfTwo) - 1
LimbBase == Pow2(LimbBits)

\* the index of the highest limb of a that is not 0, or 0
TopLimb(a) ==
  LET used == {i \in 1..Len(a) : a[i] # 0}
  IN IF used = {} THEN 0 ELSE CHOOSE i \in used : \A j \in used : j <= i

\* without leading zero limbs
BigNorm(a) == SubSeq(a, 1, TopLimb(a))

\* the natural number n < LimbBase^3 in limbs
BigOf(n) ==
  BigNorm(<<n % LimbBase, (n \div LimbBase) % LimbBase, n \div (LimbBase * LimbBase)>>)

Limb(a, i) == IF i >= 1 /\ i <= Len(a) THEN a[i] ELSE 0

\* a + b.  The carry into limb i comes from a limb below whose sum reaches
\* LimbBase, through limbs whose sum is LimbBase - 1
BigAdd(a, b) ==
  After(<<a, b>>,
    LET n == Max(Len(a), Len(b))
        s == [i \in 1..(n + 1) |-> Limb(a, i) + Limb(b, i)]
        carry(i) == IF \E j \in 1..(i - 1) :
                         /\ s[j] >= LimbBase
                         /\ \A k \in (j + 1)..(i - 1) : s[k] = LimbBase - 1
                    THEN 1 ELSE 0
    IN BigNorm([i \in 1..(n + 1) |-> (s[i] + carry(i)) % LimbBase]))

\* a - b, for a >= b.  The borrow from limb i goes to a limb below whose
\* difference is negative, through limbs whose difference is 0
BigSub(a, b) ==
  After(<<a, b>>,
    LET d == [i \in 1..Len(a) |-> a[i] - Limb(b, i)]
        borrow(i) == IF \E j \in 1..(i - 1) :
                          /\ d[j] < 0
                          /\ \A k \in (j + 1)..(i - 1) : d[k] = 0
                     THEN 1 ELSE 0
    IN BigNorm([i \in 1..Len(a) |-> (d[i] - borrow(i) + LimbBase) % LimbBase]))

\* -1, 0 or 1 as a is below, equal to or above b
BigCmp(a, b) ==
  IF Len(a) # Len(b)
  THEN IF Len(a) < Len(b) THEN -1 ELSE 1
  ELSE LET D == {i \in 1..Len(a) : a[i] # b[i]}
       IN IF D = {} THEN 0
          ELSE LET top == CHOOSE i \in D : \A j \in D : j <= i
               IN IF a[top] < b[top] THEN -1 ELSE 1

\* the natural number whose limb i, not yet carried, is c[i] < 2^31
BigOfColumns(c) ==
  LET low == [i \in 1..Len(c) |-> c[i] % LimbBase]
      mid == [i \in 1..Len(c) |-> (c[i] \div LimbBase) % LimbBase]
      high == [i \in 1..Len(c) |-> c[i] \div (LimbBase * LimbBase)]
  IN BigAdd(BigAdd(low, <<0>> \o mid), <<0, 0>> \o high)

\* a * s, for 0 <= s <= LimbBase
BigMulSmall(a, s) ==
  BigOfColumns([i \in 1..Len(a) |-> a[i] * s])

\* a * b, for a and b of at most 7 limbs
BigMul(a, b) ==
  IF a = <<>> \/ b = <<>>
  THEN <<>>
  ELSE BigOfColumns([k \in 1..(Len(a) + Len(b) - 1) |->
                       SumOf([i \in 1..Len(a) |-> a[i] * Limb(b, k + 1 - i)])])

\* a * 2^k
BigShl(a, k) ==
  After(a,
    LET bits == k % LimbBits
        low == [i \in 1..(k \div LimbBits) |-> 0]
    IN BigNorm(low \o [i \in 1..(Len(a) + 1) |->
                         (Limb(a, i) % Pow2(LimbBits - bits)) * Pow2(bits)
                           + Limb(a, i - 1) \div Pow2(LimbBits - bits)]))

\* LimbBase^k modulo s, for 0 <= k < 16
LimbBaseMod(k, s) ==
  LET p1 == LimbBase % s
      p2 == (p1 * p1) % s
      p4 == (p2 * p2) % s
      p8 == (p4 * p4) % s
      Factor(bit, p) == IF (k \div bit) % 2 = 1 THEN p ELSE 1
  IN (((((Factor(1, p1) * Factor(2, p2)) % s) * Factor(4, p4)) % s) * Factor(8, p8)) % s

\* the limbs of a from the i-th on, modulo s
BigRemSmall(a, s, i) ==
  SumOf([j \in 1..(Len(a) - i + 1) |-> (a[i + j - 1] * LimbBaseMod(j - 1, s)) % s]) % s

\* quotient and remainder of a by s, for 0 < s <= LimbBase
BigDivSmall(a, s) ==
  [q |-> BigNorm([i \in 1..Len(a) |->
                    (BigRemSmall(a, s, i + 1) * LimbBase + a[i]) \div s]),
   r |-> BigRemSmall(a, s, 1)]

\* a \div 2^k, and whether a bit was shifted out
BigShr(a, k) ==
  After(a,
    LET limbs == Min(k \div LimbBits, Len(a))
        high == SubSeq(a, limbs + 1, Len(a))
        bits == k % LimbBits
    IN [q |-> BigNorm([i \in 1..Len(high) |->
                         (high[i] \div Pow2(bits))
                           + (Limb(high, i + 1) % Pow2(bits)) * Pow2(LimbBits - bits)]),
        sticky |-> Limb(high, 1) % Pow2(bits) # 0 \/ \E i \in 1..limbs : a[i] # 0])

BitsOfLimb(x) ==
  CHOOSE k \in 0..LimbBits : x < Pow2(k) /\ (k = 0 \/ x >= Pow2(k - 1))

BitLength(a) ==
  IF a = <<>> THEN 0 ELSE LimbBits * (Len(a) - 1) + BitsOfLimb(a[Len(a)])

BigIsOdd(a) == a # <<>> /\ a[1] % 2 = 1

\* the digit of a long division that the estimate est is or is up to two above
BigDigitNear(r, v, est) ==
  CHOOSE c \in Max(est - 2, 0)..est :
    /\ BigCmp(BigMulSmall(v, c), r) <= 0
    /\ c = est \/ BigCmp(BigMulSmall(v, c + 1), r) > 0

\* one digit of a long division: r \div v, for r < v * LimbBase and the top
\* limb of v at least LimbBase / 2; the estimate from the top limbs is the
\* digit or up to two above it
BigDigit(r, v) ==
  BigDigitNear(r, v, Min((Limb(r, Len(v) + 1) * LimbBase + Limb(r, Len(v))) \div v[Len(v)],
                         LimbBase - 1))

\* the digit c goes in front of the digits q, and leaves r - v * c
BigDivTake(q, r, v, c) ==
  [q |-> <<c>> \o q, r |-> BigSub(r, BigMulSmall(v, c))]

\* the step of the long division that brings down the limb x to the
\* remainder of the limbs above, high
BigDivStep(high, v, x) ==
  After(high,
    BigDivTake(high.q, BigNorm(<<x>> \o high.r), v,
               BigDigit(BigNorm(<<x>> \o high.r), v)))

RECURSIVE BigDivFrom(_, _, _)
\* long division by v of the limbs of a from the i-th on: the digits of the
\* quotient and the remainder (fewer limbs than v has give no digit)
BigDivFrom(a, v, i) ==
  IF i > Len(a) - (Len(v) - 1)
  THEN [q |-> <<>>, r |-> BigNorm(SubSeq(a, i, Len(a)))]
  ELSE BigDivStep(BigDivFrom(a, v, i + 1), v, a[i])

BigDivResult(d) ==
  After(d, [q |-> BigNorm(d.q), sticky |-> d.r # <<>>])

\* a \div b after both are shifted by k bits, which brings the top limb of b
\* to at least LimbBase / 2
BigDivShifted(a, b, k) ==
  BigDivResult(BigDivFrom(BigShl(a, k), BigShl(b, k), 1))

\* a \div b, and whether the division left a remainder (b # 0)
BigDiv(a, b) ==
  BigDivShifted(a, b, LimbBits - BitsOfLimb(b[Len(b)]))

RECURSIVE BigSqrtFrom(_, _)
\* Newton's iteration: t is the step from s
BigSqrtNext(a, s, t) ==
  IF BigCmp(t, s) < 0 THEN BigSqrtFrom(a, t) ELSE s

\* Newton's iteration down from s, which is above the root of a
BigSqrtFrom(a, s) ==
  BigSqrtNext(a, s, BigShr(BigAdd(s, BigDiv(a, s).q), 1).q)

\* the largest s with s^2 <= a
BigSqrt(a) ==
  IF a = <<>> THEN <<>> ELSE BigSqrtFrom(a, BigShl(<<1>>, (BitLength(a) + 1) \div 2))

Zero == [neg |-> FALSE, m |-> <<>>, e |-> 0]

\* a significand that the rounding carried up to 2^53 is halved
RoundCarried(neg, rounded, e) ==
  IF BitLength(rounded) > Precision
  THEN [neg |-> neg, m |-> BigShr(rounded, 1).q, e |-> e + 1]
  ELSE [neg |-> neg, m |-> rounded, e |-> e]

\* kept is the significand and half its next bit; more says that bits follow.
\* Up when above the half, or on the half from an odd significand
RoundKept(neg, kept, e, half, more) ==
  RoundCarried(neg,
               IF half /\ (more \/ BigIsOdd(kept)) THEN BigAdd(kept, <<1>>) ELSE kept,
               e)

\* above.q is the significand followed by one more bit
RoundAbove(neg, above, e, sticky) ==
  RoundKept(neg, BigShr(above.q, 1).q, e, BigIsOdd(above.q), above.sticky \/ sticky)

\* m has len bits
RoundBits(neg, m, e, sticky, len) ==
  IF len <= Precision
  THEN [neg |-> neg, m |-> BigShl(m, Precision - len), e |-> e - (Precision - len)]
  ELSE RoundAbove(neg, BigShr(m, len - Precision - 1), e + (len - Precision), sticky)

\* the double nearest to (-1)^neg * (m + f) * 2^e, where 0 <= f < 1 and
\* sticky says that f > 0; ties go to the even significand
Round(neg, m, e, sticky) ==
  IF m = <<>> THEN Zero ELSE RoundBits(neg, m, e, sticky, BitLength(m))

\* the double nearest to (-1)^neg * (d.q + d.r / q) * 2^e
RoundQuotient(neg, d, e) ==
  Round(neg, d.q, e, d.r # 0)

\* the Number a literal or a stored value p/q denotes: the double nearest to
\* it (p >= 0, 0 < q <= LimbBase)
Ratio(neg, p, q) ==
  RoundQuotient(neg, BigDivSmall(BigShl(BigOf(p), 5 * LimbBits), q), -(5 * LimbBits))

\* the Number of an integer
Number(n) == Round(n < 0, BigOf(Abs(n)), 0, FALSE)
\* the Number of a value with one decimal, given in tenths (spo2)
Tenths(k) == Ratio(k < 0, Abs(k), 10)
\* the Number of a value with two decimals, given in hundredths (motionLevel)
Hundredths(k) == Ratio(k < 0, Abs(k), 100)

FNeg(x) == IF x.m = <<>> THEN x ELSE [x EXCEPT !.neg = ~@]
\* Math.abs
FAbs(x) == [x EXCEPT !.neg = FALSE]

\* x + y for the significands a of x and b of y at the exponent e; c compares
\* them.  Equal signs add; otherwise the larger gives the sign, and x - x is 0
FAddCompared(x, y, e, a, b, c) ==
  Round(IF x.neg = y.neg \/ c > 0 THEN x.neg ELSE y.neg,
        IF x.neg = y.neg THEN BigAdd(a, b)
        ELSE IF c = 0 THEN <<>>
        ELSE BigSub(IF c > 0 THEN a ELSE b, IF c > 0 THEN b ELSE a),
        e, FALSE)

FAddAt(x, y, e) ==
  FAddCompared(x, y, e, BigShl(x.m, x.e - e), BigShl(y.m, y.e - e),
               BigCmp(BigShl(x.m, x.e - e), BigShl(y.m, y.e - e)))

\* x + y
FAdd(x, y) ==
  IF x.m = <<>> THEN y
  ELSE IF y.m = <<>> THEN x
  ELSE FAddAt(x, y, Min(x.e, y.e))

\* x - y
FSub(x, y) == FAdd(x, FNeg(y))

\* x * y
FMul(x, y) ==
  Round(x.neg # y.neg, BigMul(x.m, y.m), x.e + y.e, FALSE)

FDivRounded(neg, d, e) ==
  Round(neg, d.q, e, d.sticky)

\* x / y, for y # 0
FDiv(x, y) ==
  After(<<x, y>>,
    IF x.m = <<>>
    THEN Zero
    ELSE FDivRounded(x.neg # y.neg, BigDiv(BigShl(x.m, 4 * LimbBits), y.m),
                     x.e - y.e - 4 * LimbBits))

\* x / n for an array length n (0 < n <= LimbBase)
FDivInt(x, n) ==
  After(x,
    RoundQuotient(x.neg, BigDivSmall(BigShl(x.m, 2 * LimbBits), n), x.e - 2 * LimbBits))

\* the root s of a rounds up when it is not exact
FSqrtRounded(a, s, e) ==
  Round(FALSE, s, e, BigMul(s, s) # a)

\* the significand is shifted by k bits, which leaves an even exponent
FSqrtShifted(x, k) ==
  FSqrtRounded(BigShl(x.m, k), BigSqrt(BigShl(x.m, k)), (x.e - k) \div 2)

\* Math.sqrt(x), for x >= 0
FSqrt(x) ==
  IF x.m = <<>>
  THEN Zero
  ELSE FSqrtShifted(x, IF x.e % 2 = 0 THEN 4 * LimbBits ELSE 4 * LimbBits + 1)

FIsNegative(d) == d.m # <<>> /\ d.neg

\* x < y
FLess(x, y) == After(<<x, y>>, FIsNegative(FSub(x, y)))

Alert(t, c) == [type |-> t, category |-> c]
IsCritical(a) == a.type = "critical"
IsWarning(a) == a.type = "warning"
SomeCritical(alerts) == \E i \in 1..Len(alerts) : IsCritical(alerts[i])

\* parseInt of the first part of bloodPressure.split("/")
Systolic(bp) == bp[1]

(***************************************************************************)
(* 1. checkCriticalVitals                                                  *)
(***************************************************************************)
HeartRateAlertsBradyWarning(vitals, patient) ==
  IF vitals.heartRate < patient.hrCritical[1]
  THEN <<Alert("warning", "bradycardia")>>
  ELSE IF vitals.heartRate > patient.hrCritical[2]
       THEN <<Alert("critical", "tachycardia")>>
       ELSE <<>>

HeartRateAlerts(vitals, patient) ==
  IF vitals.heartRate < patient.hrCritical[1]
  THEN <<Alert("critical", "bradycardia")>>
  ELSE IF vitals.heartRate > patient.hrCritical[2]
       THEN <<Alert("critical", "tachycardia")>>
       ELSE <<>>

BloodPressureAlerts(vitals, patient) ==
  IF Systolic(vitals.bloodPressure) > patient.bpCritical[1]
  THEN <<Alert("critical", "hypertensive_crisis")>>
  ELSE IF Systolic(vitals.bloodPressure) < patient.bpCritical[2]
       THEN <<Alert("critical", "hypotension")>>
       ELSE <<>>

Spo2Alerts(vitals, patient) ==
  IF vitals.spo2 < patient.spo2Critical
  THEN <<Alert("critical", "hypoxemia")>>
  ELSE <<>>

TemperatureAlertsFeverCritical(vitals) ==
  IF vitals.bodyTemperature > FeverTemp
  THEN <<Alert("critical", "fever")>>
  ELSE IF vitals.bodyTemperature < HypothermiaTemp
       THEN <<Alert("critical", "hypothermia")>>
       ELSE <<>>

TemperatureAlerts(vitals) ==
  IF vitals.bodyTemperature > FeverTemp
  THEN <<Alert("warning", "fever")>>
  ELSE IF vitals.bodyTemperature < HypothermiaTemp
       THEN <<Alert("critical", "hypothermia")>>
       ELSE <<>>

checkCriticalVitals(vitals, patient) ==
  HeartRateAlerts(vitals, patient) \o BloodPressureAlerts(vitals, patient)
    \o Spo2Alerts(vitals, patient) \o TemperatureAlerts(vitals)

(***************************************************************************)
(* 2. fall detection (inline in detectAnomalies)                           *)
(***************************************************************************)
FallAlertsAtLeast(vitals) ==
  IF vitals.fallRiskScore >= FallThreshold
  THEN <<Alert("critical", "fall_detected")>>
  ELSE <<>>

FallAlerts(vitals) ==
  IF vitals.fallRiskScore > FallThreshold
  THEN <<Alert("critical", "fall_detected")>>
  ELSE <<>>

(***************************************************************************)
(* 3. checkStatisticalAnomalies                                            *)
(* The code computes hrMean, hrStd and hrZScore as Numbers.  With n the    *)
(* window length, S the sum of heartRate and Q the sum of its squares, the *)
(* real numbers they approximate are                                       *)
(*   mean = S/n, std = sqrt(n*Q - S*S)/n, z = n*(hr - mean)/sqrt(nQ-S^2),  *)
(* so that |z| > 2.5 reads 4*(n*hr - S)^2 > 25*(n*Q - S*S) in integers.    *)
(* The Number hrZScore is within a relative 1e-13 of z (about n roundings  *)
(* of 2^-53 each, n <= 290), and when the two integers differ, |z| is at   *)
(* least a relative 1e-10 away from 2.5 (both integers are below 2^31).    *)
(* So the Numbers are computed only when the integers are equal, which is  *)
(* where the rounding decides; everywhere else the integer comparison is   *)
(* what the code's comparison gives.  When all heart rates of the window   *)
(* are equal, hrMean is exact, hrStd is 0 and the divisor is 1.            *)
(***************************************************************************)
\* window.map((v) => v.heartRate)
HeartRates(window) == Map(window, LAMBDA v : v.heartRate)

\* hrValues.reduce((a, b) => a + b) / hrValues.length; the sum of integers
\* is exact
HrMean(hrValues) == Ratio(FALSE, SumOf(hrValues), Len(hrValues))

\* Math.pow(d, 2), taken as the product d * d rounded once (what optimised
\* code computes for the constant exponent 2)
Square(d) == FMul(d, d)

RECURSIVE SquaredDeviations(_, _, _, _, _)
\* hrValues[lo..hi] reduced from the left by
\* (sum, v) => sum + Math.pow(v - hrMean, 2), starting from sum
SquaredDeviations(sum, hrValues, hrMean, lo, hi) ==
  After(sum,
    IF lo > hi THEN sum
    ELSE IF lo = hi
         THEN FAdd(sum, Square(FSub(Number(hrValues[lo]), hrMean)))
         ELSE SquaredDeviations(
                SquaredDeviations(sum, hrValues, hrMean, lo, (lo + hi) \div 2),
                hrValues, hrMean, (lo + hi) \div 2 + 1, hi))

\* Math.sqrt(hrValues.reduce(...) / hrValues.length)
HrStd(hrValues, hrMean) ==
  FSqrt(FDivInt(SquaredDeviations(Zero, hrValues, hrMean, 1, Len(hrValues)),
                Len(hrValues)))

\* hrStd || 1
HrStdOrOne(hrStd) ==
  IF hrStd = Zero THEN Number(1) ELSE hrStd

\* (currentVitals.heartRate - hrMean) / (hrStd || 1), from hrValues and hrMean
HrZScoreAbout(hrValues, hrMean, heartRate) ==
  FDiv(FSub(Number(heartRate), hrMean), HrStdOrOne(HrStd(hrValues, hrMean)))

\* hrZScore, from hrValues
HrZScoreOf(hrValues, heartRate) ==
  HrZScoreAbout(hrValues, HrMean(hrValues), heartRate)

\* (currentVitals.heartRate - hrMean) / (hrStd || 1)
HrZScore(window, currentVitals) ==
  HrZScoreOf(HeartRates(window), currentVitals.heartRate)

\* as the variance does not change when every value is shifted, the integer
\* sums are taken over heartRate - window[1].heartRate, which keeps them small
HrValues(window) == Map(window, LAMBDA v : v.heartRate - window[1].heartRate)
HrSquares(window) ==
  Map(window, LAMBDA v : (v.heartRate - window[1].heartRate)
                           * (v.heartRate - window[1].heartRate))

\* Math.abs(hrZScore) > 2.5
HrZScoreExceeds(window, currentVitals) ==
  LET n == Len(window)
      S == SumOf(HrValues(window))
      Q == SumOf(HrSquares(window))
      d == n * (currentVitals.heartRate - window[1].heartRate) - S
      varN == n * Q - S * S
  IN IF varN = 0 THEN 2 * Abs(d) > 5 * n
     ELSE IF 4 * d * d # 25 * varN THEN 4 * d * d > 25 * varN
     ELSE FLess(Ratio(FALSE, 5, 2), FAbs(HrZScore(window, currentVitals)))

HrAnomalyAlerts(window, currentVitals) ==
  IF HrZScoreExceeds(window, currentVitals)
  THEN <<Alert("warning", "hr_anomaly")>>
  ELSE <<>>

\* the values the trend is taken over: the whole window instead of its last
\* 12 entries
Spo2ValuesWholeWindow(window) == Map(window, LAMBDA v : v.spo2)

\* window.slice(-12).map((v) => v.spo2), in tenths
Spo2Values(window) == Map(SliceLast(window, 12), LAMBDA v : v.spo2)

\* spo2Values[spo2Values.length - 1] - spo2Values[0], a Number
Spo2Trend(window) ==
  LET spo2Values == Spo2Values(window)
  IN FSub(Tenths(spo2Values[Len(spo2Values)]), Tenths(spo2Values[1]))

\* spo2Trend < -5.  The Numbers of two one-decimal values are ordered as
\* the values, and their difference is rounded by less than 1e-13; so the
\* subtraction of Numbers is needed only when the decimal difference is
\* exactly -5.0, and otherwise the difference in tenths decides
Spo2TrendBelowLimit(window) ==
  LET spo2Values == Spo2Values(window)
      tenths == spo2Values[Len(spo2Values)] - spo2Values[1]
  IN IF tenths # Spo2TrendLimit
     THEN tenths < Spo2TrendLimit
     ELSE FLess(Spo2Trend(window), Number(-5))

Spo2TrendAlerts(window) ==
  IF Spo2TrendBelowLimit(window)
  THEN <<Alert("warning", "spo2_declining")>>
  ELSE <<>>

StatisticalAnomaliesMin11(window, currentVitals) ==
  IF Len(window) < MinStatWindow - 1
  THEN <<>>
  ELSE HrAnomalyAlerts(window, currentVitals) \o Spo2TrendAlerts(window)

checkStatisticalAnomalies(window, currentVitals) ==
  IF Len(window) < MinStatWindow
  THEN <<>>
  ELSE HrAnomalyAlerts(window, currentVitals) \o Spo2TrendAlerts(window)

(***************************************************************************)
(* 4. checkBehavioralChanges                                               *)
(***************************************************************************)
IsNight(h) == h >= 22 \/ h <= 6

\* window.slice(-6).map((v) => v.motionLevel), in hundredths
RecentMotion(window) == Map(SliceLast(window, 6), LAMBDA v : v.motionLevel)

RECURSIVE SumOfNumbers(_, _)
\* reduce((a, b) => a + b) over the first k Numbers, from the left
SumOfNumbers(values, k) ==
  IF k = 1 THEN values[1]
  ELSE FAdd(SumOfNumbers(values, k - 1), values[k])

\* recentMotion.reduce((a, b) => a + b) / recentMotion.length, a Number
AvgRecentMotion(window) ==
  FDivInt(SumOfNumbers(Map(RecentMotion(window), Hundredths), Len(RecentMotion(window))),
          Len(RecentMotion(window)))

\* avgRecentMotion < 0.1.  The average of six Numbers of at most 1 is rounded
\* by less than 1e-14, so the Numbers are needed only when the decimal average
\* is exactly 0.10, and otherwise the sum in hundredths decides
LowRecentMotion(window) ==
  LET recentMotion == RecentMotion(window)
  IN IF SumOf(recentMotion) # 10 * Len(recentMotion)
     THEN SumOf(recentMotion) < 10 * Len(recentMotion)
     ELSE FLess(AvgRecentMotion(window), Hundredths(10))

SustainedInactivityAlerts(window, h) ==
  LET last12 == SliceLast(window, 12)
  IN IF ~IsNight(h) /\ LowRecentMotion(window) /\ Len(window) > 24
        /\ \A i \in 1..Len(last12) : last12[i].motionLevel < 15
     THEN <<Alert("warning", "sustained_inactivity")>>
     ELSE <<>>

NocturnalActivityAlerts(window, vitals, h) ==
  IF IsNight(h) /\ vitals.motionLevel > 60
     /\ Count(SliceLast(window, 12), LAMBDA v : v.motionLevel > 50) > 6
  THEN <<Alert("warning", "nocturnal_activity")>>
  ELSE <<>>

\* the hour taken from the sample's timestamp instead of the wall clock
checkBehavioralChangesSampleHour(window, vitals, h) ==
  LET sampleHour == (vitals.timestamp \div 3600) % 24
  IN IF Len(window) < MinBehaviorWindow
     THEN <<>>
     ELSE SustainedInactivityAlerts(window, sampleHour)
            \o NocturnalActivityAlerts(window, vitals, sampleHour)

checkBehavioralChanges(window, vitals, h) ==
  IF Len(window) < MinBehaviorWindow
  THEN <<>>
  ELSE SustainedInactivityAlerts(window, h)
         \o NocturnalActivityAlerts(window, vitals, h)

(***************************************************************************)
(* calculateAnomalyScore                                                   *)
(***************************************************************************)
AnomalyScoreUncapped(alerts) ==
  Count(alerts, IsCritical) * 30 + Count(alerts, IsWarning) * 10

calculateAnomalyScore(alerts) ==
  IF Len(alerts) = 0
  THEN 0
  ELSE Min(ScoreCap, Count(alerts, IsCritical) * 30 + Count(alerts, IsWarning) * 10)

(***************************************************************************)
(* detectAnomalies: the value it returns, from the window before the call  *)
(***************************************************************************)
\* the returned object, from the alerts of the four stages in their order
DetectionFrom(criticalAlerts, fallAlerts, statAlerts, behavioralAlerts) ==
  LET sev1 == IF SomeCritical(criticalAlerts) THEN "critical" ELSE "normal"
      sev2 == IF Len(fallAlerts) > 0 THEN "critical" ELSE sev1
      sev3 == IF SomeCritical(statAlerts) THEN "critical"
              ELSE IF Len(statAlerts) > 0 /\ sev2 # "critical" THEN "warning"
              ELSE sev2
      sev4 == IF SomeCritical(behavioralAlerts) THEN "critical" ELSE sev3
      alerts == criticalAlerts \o fallAlerts \o statAlerts \o behavioralAlerts
  IN [isAnomaly |-> Len(alerts) > 0,
      severity |-> sev4,
      alerts |-> alerts,
      normalizedScore |-> calculateAnomalyScore(alerts)]

DetectionOf(window, vitals, patient, h) ==
  DetectionFrom(checkCriticalVitals(vitals, patient),
                FallAlerts(vitals),
                checkStatisticalAnomalies(window, vitals),
                checkBehavioralChanges(window, vitals, h))

(***************************************************************************)
(* addToWindow, the history push of detectAnomalies, resetPatient          *)
(***************************************************************************)
PushWindowPop(window, vitals) ==
  LET pushed == Append(window, vitals)
  IN IF Len(pushed) > WindowCap THEN SubSeq(pushed, 1, WindowCap) ELSE pushed

PushWindow(window, vitals) ==
  LET pushed == Append(window, vitals)
  IN IF Len(pushed) > WindowCap THEN Tail(pushed) ELSE pushed

PushHistoryPop(history, vitals, detection) ==
  IF Len(detection.alerts) > 0
  THEN LET pushed == Append(history, [timestamp |-> vitals.timestamp,
                                      alerts |-> detection.alerts,
                                      severity |-> detection.severity])
       IN IF Len(pushed) > HistoryCap THEN SubSeq(pushed, 1, HistoryCap) ELSE pushed
  ELSE history

PushHistory(history, vitals, detection) ==
  IF Len(detection.alerts) > 0
  THEN LET pushed == Append(history, [timestamp |-> vitals.timestamp,
                                      alerts |-> detection.alerts,
                                      severity |-> detection.severity])
       IN IF Len(pushed) > HistoryCap THEN Tail(pushed) ELSE pushed
  ELSE history

(***************************************************************************)
(* Samples                                                                 *)
(***************************************************************************)
Vitals(hr, sys, spo2, temp, motion, fall) ==
  [heartRate |-> hr, bloodPressure |-> <<sys, 88>>, spo2 |-> spo2,
   bodyTemperature |-> temp, motionLevel |-> motion, fallRiskScore |-> fall,
   timestamp |-> 0]

\* normalVitals of tests/anomalyDetector.test.js
Normal == Vitals(72, 140, 980, 368, 30, 10)

At(v, t) == [v EXCEPT !.timestamp = t]

\* samples handed to detectAnomalies: one vital moved to and across each limit
\* of P001 and P002, and samples that raise several alerts at once
SampleInputs ==
  {Normal}
  \cup {[Normal EXCEPT !.heartRate = x] : x \in {44, 45, 49, 50, 69, 73, 74, 75, 110, 121, 131}}
  \cup {[Normal EXCEPT !.bloodPressure = <<x, 60>>] : x \in {89, 90, 99, 161, 181}}
  \cup {[Normal EXCEPT !.spo2 = x] : x \in {919, 920, 929, 930}}
  \cup {[Normal EXCEPT !.bodyTemperature = x] : x \in {349, 350, 385, 386}}
  \cup {[Normal EXCEPT !.motionLevel = x] : x \in {2, 61, 70}}
  \cup {[Normal EXCEPT !.fallRiskScore = x] : x \in {80, 81, 95}}
  \cup {Vitals(40, 85, 900, 340, 30, 95), Vitals(140, 140, 880, 395, 30, 10),
        Vitals(75, 140, 980, 388, 70, 10), Vitals(35, 140, 980, 368, 30, 85)}

\* samples handed to addToWindow directly
AddInputs == {Normal, [Normal EXCEPT !.heartRate = 110],
              [Normal EXCEPT !.spo2 = 900, !.motionLevel = 70]}

\* windows the detector can hold after n addToWindow calls (timestamps 1..n)
ConstWindow(n) == [i \in 1..n |-> At(Normal, i)]
\* heart rate alternating 70, 74: mean 72, standard deviation 2
VariedWindow(n) ==
  [i \in 1..n |-> At([Normal EXCEPT !.heartRate = IF i % 2 = 0 THEN 74 ELSE 70], i)]
\* heart rate 72 with one reading of 73: standard deviation between 0 and 1
NearConstWindow(n) ==
  [i \in 1..n |-> At([Normal EXCEPT !.heartRate = IF i = n THEN 73 ELSE 72], i)]
\* spo2 falling from 98.0 in steps of 0.8
DeclineWindow(n) == [i \in 1..n |-> At([Normal EXCEPT !.spo2 = 980 - 8 * (i - 1)], i)]
\* spo2 98.0 in the first k entries and x afterwards
StepWindow(n, k, x) ==
  [i \in 1..n |-> At([Normal EXCEPT !.spo2 = IF i <= k THEN 980 ELSE x], i)]
ActiveWindow(n) == [i \in 1..n |-> At([Normal EXCEPT !.motionLevel = 70], i)]
StillWindow(n) == [i \in 1..n |-> At([Normal EXCEPT !.motionLevel = 5], i)]
\* still in its last 6 entries, motionLevel 0.15 in the 6 before them
SettlingWindow(n) ==
  [i \in 1..n |-> At([Normal EXCEPT !.motionLevel = IF i > n - 6 THEN 5
                                                    ELSE IF i > n - 12 THEN 15
                                                    ELSE 30], i)]

\* 18 heart rates a, a, a+1, a+1 and 14 times a+2: for a sample of heart rate a
\* the z-score is -2.5 in real numbers
EdgeHrWindow(a) ==
  [i \in 1..18 |-> At([Normal EXCEPT !.heartRate = IF i <= 2 THEN a
                                                     ELSE IF i <= 4 THEN a + 1
                                                     ELSE a + 2], i)]
\* spo2 x in the first 11 entries and 5.0 less in the 12th
EdgeSpo2Window(x) ==
  [i \in 1..12 |-> At([Normal EXCEPT !.spo2 = IF i < 12 THEN x ELSE x - 50], i)]
\* 25 entries, motionLevel 0.05 in the first 19 and last6 in the others
EdgeMotionWindow(last6) ==
  [i \in 1..25 |-> At([Normal EXCEPT !.motionLevel = IF i <= 19 THEN 5
                                                       ELSE last6[i - 19]], i)]

InitWindows ==
  {ConstWindow(n) : n \in 0..MaxInitLen}
  \cup {VariedWindow(n) : n \in {12, MaxInitLen}}
  \cup {NearConstWindow(n) : n \in {12, MaxInitLen}}
  \cup {DeclineWindow(n) : n \in 10..MaxInitLen}
  \cup {StepWindow(12, 1, 929), StepWindow(12, 1, 930),
        StepWindow(13, 1, 929), StepWindow(13, 2, 929)}
  \cup {ActiveWindow(n) : n \in {5, 6, 7, 12}}
  \cup {StillWindow(n) : n \in {24, 25}}
  \cup {SettlingWindow(25)}

\* a stored sample: the vitals and recordedAt
Record(v, t) ==
  [heartRate |-> v.heartRate, bloodPressure |-> v.bloodPressure, spo2 |-> v.spo2,
   bodyTemperature |-> v.bodyTemperature, motionLevel |-> v.motionLevel,
   fallRiskScore |-> v.fallRiskScore, recordedAt |-> t]

\* the object loadHistoricalData and detectRetrospectiveAnomalies build from a record
RecordVitals(record) ==
  [heartRate |-> record.heartRate, bloodPressure |-> record.bloodPressure,
   spo2 |-> record.spo2, bodyTemperature |-> record.bodyTemperature,
   motionLevel |-> record.motionLevel, fallRiskScore |-> record.fallRiskScore,
   timestamp |-> record.recordedAt]

EmptyByPatient == [p \in Patients |-> <<>>]
NoResult == [isAnomaly |-> FALSE, severity |-> "none", alerts |-> <<>>,
             normalizedScore |-> 0]
\* options: patientId is a patient or "all" (null); a date is <<>> (null) or <<t>>
NoOptions == [patientId |-> "all", startDate |-> <<>>, endDate |-> <<>>,
              updateDatabase |-> TRUE]

EmptyResults ==
  [processed |-> 0, newAnomaliesDetected |-> 0, criticalCount |-> 0,
   warningCount |-> 0, patientsSummary |-> <<>>, errors |-> <<>>]

\* a date of the request body: the text sent ("null" when the field is null or
\* missing) and what new Date(text).getTime() gives, <<>> standing for NaN
NullDate == [text |-> "null", time |-> <<>>]
EmptyDate == [text |-> "", time |-> <<>>]
BadDate == [text |-> "invalid-date", time |-> <<>>]
IsoDate(t) == [text |-> "iso", time |-> <<t>>]

NoBody == [patientId |-> "all", startDate |-> NullDate, endDate |-> NullDate,
           updateDatabase |-> TRUE]

\* res.status(...).json(...): no response sent yet
NoResponse == [status |-> 0, success |-> "none", error |-> "none"]

NoRun ==
  [pc |-> "idle", body |-> NoBody, response |-> NoResponse,
   options |-> NoOptions, results |-> EmptyResults,
   patientMap |-> {}, existingAnomalySet |-> {},
   recordsByPatient |-> EmptyByPatient, todo |-> <<>>, pid |-> "P001",
   idx |-> 0,
   \* for the properties: the anomalies stored when the run started, the keys
   \* it has added, what became of the last record, the hours it detected at
   anomaliesAtStart |-> <<>>, created |-> {}, lastOutcome |-> "none",
   hoursSeen |-> {},
   \* the await that threw into the catch of the run
   thrown |-> "none",
   \* the samples of each patient and the anomalies stored when the query
   \* under way was sent, what detectAnomalies returned for the record whose
   \* writes are under way, and the _id its anomaly was given
   sentRecords |-> [p \in Patients |-> 0], sentAnomalies |-> 0,
   detection |-> NoResult, anomalyId |-> 0]

\* before: the call before it, with the result the detector had last returned
NoBefore == [op |-> "none", detector |-> "live", patient |-> "P001",
             vitals |-> Normal, window |-> <<>>, hour |-> 0, result |-> NoResult]
NoCall == [op |-> "none", detector |-> "live", patient |-> "P001",
           vitals |-> Normal, window |-> <<>>, hour |-> 0, before |-> NoBefore]
\* what the caller of detectAnomalies sees of one call
Returned(vitals, detection) ==
  [timestamp |-> vitals.timestamp, alerts |-> detection.alerts,
   severity |-> detection.severity]

Call(op, d, p, vitals) ==
  [op |-> op, detector |-> d, patient |-> p, vitals |-> vitals,
   window |-> dataWindow[d][p], hour |-> hour,
   before |-> [op |-> lastCall.op, detector |-> lastCall.detector,
               patient |-> lastCall.patient, vitals |-> lastCall.vitals,
               window |-> lastCall.window, hour |-> lastCall.hour,
               result |-> result]]

\* for (const patient of PATIENTS): the order of the patients in a health check
PatientList == <<"P001", "P002">>
CycleIds == 1..MaxCycles

\* a performHealthCheck call: where it is (waiting for the interval, awaiting
\* postToHttpbin, saveHealthRecord, the save of the anomaly or of an alert log
\* in handleAnomaly, done), the index of its patient in PatientList, the
\* vitals it generated, what detectAnomalies returned for them, the time at
\* which the document whose save is awaited was built, and the index of the
\* alert whose log is being saved
NoCycle == [pc |-> "waiting", i |-> 0, vitals |-> Normal, detection |-> NoResult,
            now |-> 0, k |-> 0]
\* no health check has started; clock is the time in seconds
NoCycles == [clock |-> 0, of |-> [c \in CycleIds |-> NoCycle]]

\* two samples stored for P001 before the detector starts
SmallDb ==
  [p \in Patients |->
     IF p = "P001"
     THEN <<Record(Normal, 1000), Record([Normal EXCEPT !.heartRate = 80], 1300)>>
     ELSE <<>>]

(***************************************************************************)
(* Operations of AnomalyDetector                                           *)
(***************************************************************************)
setHealthRecordModel(d) ==
  /\ ~HealthRecord[d]
  /\ HealthRecord' = [HealthRecord EXCEPT ![d] = TRUE]
  /\ steps' = StepsAfter
  /\ UNCHANGED <<dataWindow, anomalyHistory, result, hour, cycles, scoreVars, dbVars,
                 runVars, calls, returned, loaded, loading, lastCall>>

\* the query result without its sort: the records in the order they are stored
SortedAsStored(records) == records

\* .sort({recordedAt: 1}): ascending by recordedAt.  Records that are stored
\* in ascending order come back as they are stored; records of one recordedAt
\* are left in their stored order (no patient of the model has two of them)
SortByRecordedAt(records) ==
  LET n == Len(records)
      Before(i) == {j \in 1..n : \/ records[j].recordedAt < records[i].recordedAt
                                 \/ /\ records[j].recordedAt = records[i].recordedAt
                                    /\ j < i}
  IN IF \A i \in 1..(n - 1) : records[i].recordedAt <= records[i + 1].recordedAt
     THEN records
     ELSE [k \in 1..n |-> records[CHOOSE i \in 1..n : Cardinality(Before(i)) = k - 1]]

\* What a find or a count sent when `sent` documents were stored can see of a
\* collection that only grows: the documents stored at some moment between
\* the call and the answer.
SeenSince(stored, sent) == {SubSeq(stored, 1, k) : k \in sent..Len(stored)}

\* find({patientId}).sort({recordedAt: -1}).limit(288), reversed
LoadedRecords(stored) == SliceLast(SortByRecordedAt(stored), LoadLimit)

\* loadHistoricalData down to its await: without an injected model it returns
\* at once (a stuttering step), else the query is sent.  A query under way is
\* kept as the number of samples of the patient stored when it was sent.
loadHistoricalData(d, p) ==
  /\ HealthRecord[d]
  /\ loading' = [loading EXCEPT ![d][p] = Append(@, Len(healthRecords[p]))]
  /\ steps' = StepsAfter
  /\ UNCHANGED <<detVars, hour, cycles, scoreVars, dbVars, runVars, calls, returned,
                 loaded, lastCall>>

\* the i-th query under way is answered with records: none of them returns,
\* else they are pushed behind what the window holds by now, oldest first
\* and without a look at the capacity
HistoricalDataLoaded(d, p, i) ==
  /\ i \in 1..Len(loading[d][p])
  /\ loading' = [loading EXCEPT
                   ![d][p] = SubSeq(@, 1, i - 1) \o SubSeq(@, i + 1, Len(@))]
  /\ \E stored \in SeenSince(healthRecords[p], loading[d][p][i]) :
       LET records == LoadedRecords(stored)
       IN IF Len(records) = 0
          THEN UNCHANGED <<dataWindow, loaded, lastCall>>
          ELSE /\ dataWindow' = [dataWindow EXCEPT
                                   ![d][p] = @ \o Map(records, RecordVitals)]
               /\ loaded' = IF d = "live" THEN [loaded EXCEPT ![p] = TRUE] ELSE loaded
               /\ lastCall' = Call("load", d, p, Normal)
  /\ UNCHANGED <<anomalyHistory, HealthRecord, result, hour, cycles, scoreVars, dbVars,
                 runVars, calls, returned, steps>>

\* the i-th query under way rejects: the catch logs the error
HistoricalDataFailed(d, p, i) ==
  /\ i \in 1..Len(loading[d][p])
  /\ loading' = [loading EXCEPT
                   ![d][p] = SubSeq(@, 1, i - 1) \o SubSeq(@, i + 1, Len(@))]
  /\ UNCHANGED <<detVars, hour, cycles, scoreVars, dbVars, runVars, calls, returned,
                 loaded, lastCall, steps>>

addToWindow(d, p, vitals) ==
  /\ dataWindow' = [dataWindow EXCEPT ![d][p] = PushWindow(@, vitals)]
  /\ calls' = IF d = "live" THEN [calls EXCEPT ![p] = @ + 1] ELSE calls
  /\ lastCall' = Call("add", d, p, vitals)
  /\ steps' = StepsAfter
  /\ UNCHANGED <<anomalyHistory, HealthRecord, result, hour, cycles, scoreVars, dbVars,
                 runVars, returned, loaded, loading>>

\* detectAnomalies with addToWindow moved in front of the evaluators
detectAnomaliesAppendFirst(d, p, vitals) ==
  LET detection == DetectionOf(PushWindow(dataWindow[d][p], vitals), vitals,
                               Profile(p), hour)
  IN /\ anomalyHistory' = [anomalyHistory EXCEPT
                             ![d][p] = PushHistory(@, vitals, detection)]
     /\ dataWindow' = [dataWindow EXCEPT ![d][p] = PushWindow(@, vitals)]
     /\ result' = detection
     /\ calls' = IF d = "live" THEN [calls EXCEPT ![p] = @ + 1] ELSE calls
     /\ returned' = IF d = "live" /\ Len(detection.alerts) > 0
                    THEN [returned EXCEPT ![p] = Append(@, Returned(vitals, detection))]
                    ELSE returned
     /\ lastCall' = Call("detect", d, p, vitals)
     /\ steps' = StepsAfter
     /\ UNCHANGED <<HealthRecord, hour, cycles, scoreVars, dbVars, runVars, loaded, loading>>

detectAnomalies(d, p, vitals) ==
  LET detection == DetectionOf(dataWindow[d][p], vitals, Profile(p), hour)
  IN /\ anomalyHistory' = [anomalyHistory EXCEPT
                             ![d][p] = PushHistory(@, vitals, detection)]
     /\ dataWindow' = [dataWindow EXCEPT ![d][p] = PushWindow(@, vitals)]
     /\ result' = detection
     /\ calls' = IF d = "live" THEN [calls EXCEPT ![p] = @ + 1] ELSE calls
     /\ returned' = IF d = "live" /\ Len(detection.alerts) > 0
                    THEN [returned EXCEPT ![p] = Append(@, Returned(vitals, detection))]
                    ELSE returned
     /\ lastCall' = Call("detect", d, p, vitals)
     /\ steps' = StepsAfter
     /\ UNCHANGED <<HealthRecord, hour, cycles, scoreVars, dbVars, runVars, loaded, loading>>

\* resetPatient without its second delete
resetPatientWindowOnly(d, p) ==
  /\ dataWindow' = [dataWindow EXCEPT ![d][p] = <<>>]
  /\ calls' = IF d = "live" THEN [calls EXCEPT ![p] = 0] ELSE calls
  /\ returned' = IF d = "live" THEN [returned EXCEPT ![p] = <<>>] ELSE returned
  /\ loaded' = IF d = "live" THEN [loaded EXCEPT ![p] = FALSE] ELSE loaded
  /\ lastCall' = Call("reset", d, p, Normal)
  /\ steps' = StepsAfter
  /\ UNCHANGED <<anomalyHistory, HealthRecord, result, hour, cycles, scoreVars, dbVars, runVars, loading>>

resetPatient(d, p) ==
  /\ dataWindow' = [dataWindow EXCEPT ![d][p] = <<>>]
  /\ anomalyHistory' = [anomalyHistory EXCEPT ![d][p] = <<>>]
  /\ calls' = IF d = "live" THEN [calls EXCEPT ![p] = 0] ELSE calls
  /\ returned' = IF d = "live" THEN [returned EXCEPT ![p] = <<>>] ELSE returned
  /\ loaded' = IF d = "live" THEN [loaded EXCEPT ![p] = FALSE] ELSE loaded
  /\ lastCall' = Call("reset", d, p, Normal)
  /\ steps' = StepsAfter
  /\ UNCHANGED <<HealthRecord, result, hour, cycles, scoreVars, dbVars, runVars, loading>>

\* a call of calculateAnomalyScore
ScoreCall(alerts) ==
  /\ alertList' = alerts
  /\ scoreOut' = calculateAnomalyScore(alerts)
  /\ UNCHANGED <<detVars, hour, cycles, dbVars, runVars, calls, returned, loaded, loading, lastCall, steps>>

\* the wall clock moves to another hour
Tick ==
  /\ \E h \in Hours \ {hour} : hour' = h
  /\ steps' = StepsAfter
  /\ UNCHANGED <<detVars, scoreVars, dbVars, runVars, calls, returned, loaded, loading, lastCall,
                 cycles>>

(***************************************************************************)
(* Spec: calls on one detector whose window for P001 already holds samples *)
(***************************************************************************)
InitCommon ==
  /\ cycles = NoCycles
  /\ anomalyHistory = [d \in Detectors |-> EmptyByPatient]
  /\ result = NoResult
  /\ alertList = <<>>
  /\ scoreOut = calculateAnomalyScore(alertList)
  /\ lastCall = NoCall
  /\ patients = [p \in Patients |-> "active"]
  /\ anomalies = <<>>
  /\ alertLogs = <<>>
  /\ run = NoRun
  /\ prevRun = NoRun
  /\ loaded = [p \in Patients |-> FALSE]
  /\ loading = [d \in Detectors |-> EmptyByPatient]
  /\ returned = EmptyByPatient
  /\ steps = 0

Init ==
  /\ InitCommon
  /\ \E w \in InitWindows :
       /\ dataWindow = [d \in Detectors |->
                          IF d = "live" THEN [EmptyByPatient EXCEPT !["P001"] = w]
                          ELSE EmptyByPatient]
       /\ calls = [p \in Patients |-> IF p = "P001" THEN Len(w) ELSE 0]
  /\ HealthRecord = [d \in Detectors |-> d = "live"]
  /\ hour \in Hours
  /\ healthRecords = SmallDb

Next ==
  \/ /\ steps < MaxSteps
     /\ \E p \in Patients, v \in SampleInputs :
          detectAnomalies("live", p, At(v, calls[p] + 1))
  \/ /\ steps < MaxSteps
     /\ \E p \in Patients, v \in AddInputs :
          addToWindow("live", p, At(v, calls[p] + 1))
  \/ /\ steps < MaxSteps
     /\ \E p \in Patients : resetPatient("live", p)
  \/ /\ steps < MaxSteps
     /\ \E p \in Patients : loadHistoricalData("live", p)
  \/ \E p \in Patients : \E i \in DOMAIN loading["live"][p] :
       HistoricalDataLoaded("live", p, i)
  \/ \E p \in Patients : \E i \in DOMAIN loading["live"][p] :
       HistoricalDataFailed("live", p, i)
  \/ /\ steps < MaxSteps
     /\ Tick

Spec == Init /\ [][Next]_vars

(***************************************************************************)
(* SpecNumbers: detectAnomalies on a detector whose window for P001 puts   *)
(* the z-score, the trend or the average motion on its threshold or just   *)
(* beside it, where the rounding of the Numbers decides                    *)
(***************************************************************************)
NumberWindows ==
  {EdgeHrWindow(72), EdgeHrWindow(45)}
  \cup {EdgeSpo2Window(644)}
  \cup {EdgeMotionWindow(<<10, 10, 10, 10, 10, 10>>),
        EdgeMotionWindow(<<0, 4, 14, 14, 14, 14>>)}
  \cup {StepWindow(12, 1, 929), StepWindow(12, 1, 930),
        StepWindow(13, 1, 929), StepWindow(13, 2, 929)}
  \cup {VariedWindow(12), StillWindow(25), SettlingWindow(25)}

InitNumbers ==
  /\ InitCommon
  /\ \E w \in NumberWindows :
       /\ dataWindow = [d \in Detectors |->
                          IF d = "live" THEN [EmptyByPatient EXCEPT !["P001"] = w]
                          ELSE EmptyByPatient]
       /\ calls = [p \in Patients |-> IF p = "P001" THEN Len(w) ELSE 0]
  /\ HealthRecord = [d \in Detectors |-> d = "live"]
  /\ hour \in Hours
  /\ healthRecords = SmallDb

NextNumbers ==
  \/ /\ steps < MaxSteps
     /\ \E v \in SampleInputs :
          detectAnomalies("live", "P001", At(v, calls["P001"] + 1))
  \/ /\ steps < MaxSteps
     /\ Tick

SpecNumbers == InitNumbers /\ [][NextNumbers]_vars

(***************************************************************************)
(* SpecWindow: one patient's window filled up to and beyond its capacity;  *)
(* the n-th sample since the last reset carries timestamp n                *)
(***************************************************************************)
InitWindow ==
  /\ InitCommon
  /\ dataWindow = [d \in Detectors |-> EmptyByPatient]
  /\ calls = [p \in Patients |-> 0]
  /\ HealthRecord = [d \in Detectors |-> d = "live"]
  /\ hour = 12
  /\ healthRecords = SmallDb

\* once loadHistoricalData has pushed into the window, the exploration follows
\* the patient no further until the next reset; while its query is under way
\* the calls go on
NextWindow ==
  \/ /\ calls["P001"] < MaxCalls /\ ~loaded["P001"]
     /\ detectAnomalies("live", "P001", At(Normal, calls["P001"] + 1))
  \/ /\ calls["P001"] < MaxCalls /\ ~loaded["P001"]
     /\ addToWindow("live", "P001", At(Normal, calls["P001"] + 1))
  \/ /\ calls["P001"] > 0 \/ loaded["P001"]
     /\ resetPatient("live", "P001")
  \/ /\ ~loaded["P001"] /\ Len(loading["live"]["P001"]) < MaxLoads
     /\ loadHistoricalData("live", "P001")
  \/ \E i \in DOMAIN loading["live"]["P001"] : HistoricalDataLoaded("live", "P001", i)
  \/ \E i \in DOMAIN loading["live"]["P001"] : HistoricalDataFailed("live", "P001", i)

SpecWindow == InitWindow /\ [][NextWindow]_vars

(***************************************************************************)
(* SpecHistory: the anomaly history of one patient at a time filled up to  *)
(* and beyond its capacity with the samples of the test "should limit      *)
(* anomaly history to 100 entries": spo2 = 88 + (i % 5), which is below    *)
(* P002's limit on every call and below P001's on four calls out of five   *)
(***************************************************************************)
HistorySample(i) == [Normal EXCEPT !.spo2 = 880 + 10 * (i % 5)]

InitHistory ==
  /\ InitCommon
  /\ dataWindow = [d \in Detectors |-> EmptyByPatient]
  /\ calls = [p \in Patients |-> 0]
  /\ HealthRecord = [d \in Detectors |-> d = "live"]
  /\ hour = 12
  /\ healthRecords = SmallDb

NextHistory ==
  \/ \E p \in Patients :
       /\ calls[p] < MaxHistCalls
       /\ \A q \in Patients \ {p} : calls[q] = 0
       /\ detectAnomalies("live", p, At(HistorySample(calls[p] + 1), calls[p] + 1))
  \/ \E p \in Patients :
       /\ calls[p] > 0
       /\ resetPatient("live", p)

SpecHistory == InitHistory /\ [][NextHistory]_vars

(***************************************************************************)
(* SpecScore: calculateAnomalyScore on alert lists grown one alert at a    *)
(* time, and on the alerts of a detectAnomalies call on a new detector     *)
(***************************************************************************)
InitScore ==
  /\ InitCommon
  /\ dataWindow = [d \in Detectors |-> EmptyByPatient]
  /\ calls = [p \in Patients |-> 0]
  /\ HealthRecord = [d \in Detectors |-> d = "live"]
  /\ hour \in Hours
  /\ healthRecords = SmallDb

NextScore ==
  \/ /\ Len(alertList) < MaxAlerts
     /\ \E t \in {"critical", "warning"} :
          ScoreCall(Append(alertList, Alert(t, "any")))
  \/ /\ lastCall.op = "none"
     /\ \E p \in Patients, v \in SampleInputs :
          detectAnomalies("live", p, At(v, calls[p] + 1))

SpecScore == InitScore /\ [][NextScore]_vars

(***************************************************************************)
(* detectRetrospectiveAnomalies, on the route's detector "retro".          *)
(* The run is followed from one await to the next: the three queries at    *)
(* its start, then per patient the reset and the context query, then one   *)
(* step per replayed record (detection and, for a new anomaly, the two     *)
(* writes), then the reset after the patient's last record.                *)
(***************************************************************************)
\* the timestamp kept to the millisecond
TruncNothing(t) == t

\* new Date(t).setSeconds(0, 0)
TruncMinute(t) == t - (t % 60)

\* `${patientId}-${timestamp}`
AnomalyKey(pid, t) == <<pid, TruncMinute(t)>>

\* query.recordedAt = {$gte: startDate, $lte: endDate}
InRange(t, options) ==
  /\ options.startDate = <<>> \/ t >= options.startDate[1]
  /\ options.endDate = <<>> \/ t <= options.endDate[1]

\* Patient.find(patientId ? {patientId} : {})
FoundPatientsAll(options) ==
  IF options.patientId # "all"
  THEN {p \in Patients : p = options.patientId /\ patients[p] # "absent"}
  ELSE {p \in Patients : patients[p] # "absent"}

\* Patient.find(patientId ? {patientId} : {isActive: true})
FoundPatients(options) ==
  IF options.patientId # "all"
  THEN {p \in Patients : p = options.patientId /\ patients[p] # "absent"}
  ELSE {p \in Patients : patients[p] = "active"}

\* HealthRecord.find(query).sort({recordedAt: 1}), grouped by patient
RecordsByPatient(stored, options) ==
  [p \in Patients |->
     IF options.patientId \in {"all", p}
     THEN SortByRecordedAt(SelectSeq(stored[p],
                                     LAMBDA r : InRange(r.recordedAt, options)))
     ELSE <<>>]

\* what the find over the samples of all patients can see, sent when
\* sent[p] samples of p were stored
SeenRecords(sent) ==
  {[p \in Patients |-> IF p = "P001" THEN s1 ELSE s2] :
     s1 \in SeenSince(healthRecords["P001"], sent["P001"]),
     s2 \in SeenSince(healthRecords["P002"], sent["P002"])}

\* Anomaly.find({patientId?, detectedAt: range?})
ExistingAnomalies(stored, options) ==
  SelectSeq(stored, LAMBDA a :
    /\ options.patientId \in {"all", a.patientId}
    /\ InRange(a.detectedAt, options))

ExistingAnomalySet(stored, options) ==
  LET existingAnomalies == ExistingAnomalies(stored, options)
  IN {AnomalyKey(existingAnomalies[i].patientId, existingAnomalies[i].detectedAt) :
        i \in 1..Len(existingAnomalies)}

\* Object.entries(recordsByPatient): the patients with a record, in the order
\* their first record comes in the sorted query result.  The sort is by
\* recordedAt alone, so the first records of two patients that share a
\* recordedAt come in either order.
PatientOrders(byPatient) ==
  LET S == {p \in Patients : Len(byPatient[p]) > 0}
  IN {seq \in [1..Cardinality(S) -> S] :
        /\ \A i, j \in 1..Cardinality(S) : i # j => seq[i] # seq[j]
        /\ \A i, j \in 1..Cardinality(S) :
             i < j => byPatient[seq[i]][1].recordedAt <= byPatient[seq[j]][1].recordedAt}

\* the query without its descending sort: the 50 oldest earlier samples
ContextRecordsOldest(stored, first) ==
  LET earlier == SortByRecordedAt(SelectSeq(stored,
                                            LAMBDA r : r.recordedAt < first.recordedAt))
  IN SubSeq(earlier, 1, Min(ContextLimit, Len(earlier)))

\* find({patientId, recordedAt: {$lt: first}}).sort({recordedAt: -1}).limit(50),
\* reversed, over the stored samples of the patient
ContextRecords(stored, first) ==
  SliceLast(SortByRecordedAt(SelectSeq(stored,
                                       LAMBDA r : r.recordedAt < first.recordedAt)),
            ContextLimit)

\* contextRecords.forEach(record => this.addToWindow(pid, {...})): each call
\* appends and drops the oldest entry beyond the capacity, which leaves the
\* last WindowCap entries of the window followed by the records
PushAll(window, records) ==
  SliceLast(window \o Map(records, RecordVitals), WindowCap)

NewSummary(count) ==
  [recordsProcessed |-> count, newAnomalies |-> 0, criticalAnomalies |-> 0,
   warningAnomalies |-> 0]

\* res.json({success: true, message, results, timestamp})
OkResponse == [status |-> 200, success |-> "true", error |-> "none"]

\* return results, and the route's response to it
Returned200(r) == [r EXCEPT !.pc = "done", !.response = OkResponse]

\* catch (error) { results.errors.push(error.message) }; return results
Caught(r, await) ==
  Returned200([r EXCEPT
                 !.results.errors = Append(@, [kind |-> "exception", patientId |-> "none"]),
                 !.thrown = await])

\* The awaits of a run.  A run executes from one await to the next without
\* another callback of the process in between; each action below is the
\* code between two awaits, or a part of it.
StartQueries == {"patients query", "records query", "anomalies query"}
AwaitPcs == StartQueries \cup {"context", "anomaly write", "alert log write"}

\* the run is at an await, or the route is not handling a request: other
\* callbacks of the process can run
AtAwait(r) == r.pc \in {"idle", "rejected", "failed", "done"} \cup AwaitPcs

\* the run is called: down to the await of Patient.find
RetroStart(options) ==
  /\ run.pc \in {"idle", "accepted"} \/ (run.pc = "done" /\ prevRun.pc = "idle")
  /\ HealthRecord[retrospectiveDetector]
  /\ prevRun' = run
  /\ run' = [NoRun EXCEPT !.pc = "patients query", !.options = options,
                          !.anomaliesAtStart = anomalies, !.body = run.body]
  /\ UNCHANGED <<detVars, hour, cycles, scoreVars, dbVars, calls, returned, loaded, loading,
                 lastCall, steps>>

\* Patient.find has answered: without a patient the run returns, else
\* HealthRecord.find is sent
RetroPatientsFound ==
  /\ run.pc = "patients query"
  /\ run' = IF FoundPatients(run.options) = {}
            THEN Returned200(run)
            ELSE [run EXCEPT
                    !.pc = "records query",
                    !.patientMap = FoundPatients(run.options),
                    !.sentRecords = [p \in Patients |-> Len(healthRecords[p])]]
  /\ UNCHANGED <<detVars, hour, cycles, scoreVars, dbVars, prevRun, calls, returned, loaded,
                 loading, lastCall, steps>>

\* HealthRecord.find has answered, and Anomaly.find is sent (the grouping of
\* the records, which the code does after the next await, reads nothing else)
RetroRecordsFound ==
  /\ run.pc = "records query"
  /\ \E stored \in SeenRecords(run.sentRecords) :
       \E order \in PatientOrders(RecordsByPatient(stored, run.options)) :
         run' = [run EXCEPT
                   !.pc = "anomalies query",
                   !.recordsByPatient = RecordsByPatient(stored, run.options),
                   !.todo = order,
                   !.sentAnomalies = Len(anomalies)]
  /\ UNCHANGED <<detVars, hour, cycles, scoreVars, dbVars, prevRun, calls, returned, loaded,
                 loading, lastCall, steps>>

\* Anomaly.find has answered: the set of keys is built and the loop over the
\* patients begins
RetroAnomaliesFound ==
  /\ run.pc = "anomalies query"
  /\ \E stored \in SeenSince(anomalies, run.sentAnomalies) :
       run' = [run EXCEPT
                 !.pc = "loop",
                 !.existingAnomalySet = ExistingAnomalySet(stored, run.options)]
  /\ UNCHANGED <<detVars, hour, cycles, scoreVars, dbVars, prevRun, calls, returned, loaded,
                 loading, lastCall, steps>>

\* Patient.find, HealthRecord.find or Anomaly.find rejects: the catch of the
\* run takes the error and the run returns its empty results
RetroQueryFails ==
  /\ run.pc \in StartQueries
  /\ run' = Caught(run, run.pc)
  /\ UNCHANGED <<detVars, hour, cycles, scoreVars, dbVars, prevRun, calls, returned, loaded,
                 loading, lastCall, steps>>

\* the loop body of the next patient down to the await of the context query:
\* the summary entry and resetPatient
RetroResetPatient ==
  /\ run.pc = "loop"
  /\ run.todo # <<>>
  /\ LET pid == Head(run.todo)
         records == run.recordsByPatient[pid]
     IN IF pid \notin run.patientMap
        THEN /\ run' = [run EXCEPT
                          !.todo = Tail(@),
                          !.results.errors = Append(@, [kind |-> "not found", patientId |-> pid])]
             /\ UNCHANGED <<dataWindow, anomalyHistory>>
        ELSE /\ run' = [run EXCEPT
                          !.pc = "context", !.todo = Tail(@), !.pid = pid, !.idx = 1,
                          !.results.patientsSummary = (pid :> NewSummary(Len(records))) @@ @,
                          !.sentRecords[pid] = Len(healthRecords[pid])]
             /\ dataWindow' = [dataWindow EXCEPT ![retrospectiveDetector][pid] = <<>>]
             /\ anomalyHistory' = [anomalyHistory EXCEPT ![retrospectiveDetector][pid] = <<>>]
  /\ UNCHANGED <<HealthRecord, result, hour, cycles, scoreVars, dbVars, prevRun, calls, returned,
                 loaded, loading, lastCall, steps>>

\* the context query has answered: its records are appended to the window
RetroLoadContext ==
  /\ run.pc = "context"
  /\ \E stored \in SeenSince(healthRecords[run.pid], run.sentRecords[run.pid]) :
       dataWindow' = [dataWindow EXCEPT
                        ![retrospectiveDetector][run.pid] =
                           PushAll(@, ContextRecords(stored,
                                                     run.recordsByPatient[run.pid][1]))]
  /\ run' = [run EXCEPT !.pc = "records"]
  /\ UNCHANGED <<anomalyHistory, HealthRecord, result, hour, cycles, scoreVars, dbVars, prevRun,
                 calls, returned, loaded, loading, lastCall, steps>>

\* the context query of the patient rejects: the loop is left through the
\* catch of the run
RetroContextFails ==
  /\ run.pc = "context"
  /\ run' = Caught(run, "context query")
  /\ UNCHANGED <<detVars, hour, cycles, scoreVars, dbVars, prevRun, calls, returned, loaded,
                 loading, lastCall, steps>>

\* A field a document may lack is a sequence of length 0 or 1.
\* The object handed to Anomaly.create (id stands for the _id it is given).
AnomalyDoc(pid, record, detection) ==
  [id |-> Len(anomalies) + 1, patientId |-> pid, severity |-> detection.severity,
   detectedAt |-> record.recordedAt, alerts |-> detection.alerts,
   acknowledged |-> FALSE,
   metadata |-> <<[retrospective |-> TRUE,
                   anomalyScore |-> detection.normalizedScore]>>]

\* The objects handed to AlertLog.insertMany.
AlertLogDocs(pid, record, detection, anomalyId) ==
  [i \in 1..Len(detection.alerts) |->
     [patientId |-> pid, type |-> detection.alerts[i].type,
      category |-> detection.alerts[i].category, timestamp |-> record.recordedAt,
      metadata |-> <<[retrospective |-> TRUE, anomalyId |-> anomalyId]>>]]

\* What the Anomaly model stores of an object: the paths of anomalySchema. The
\* schema is strict (the mongoose default), so the metadata of the object is
\* not stored, and the object has no anomalyScore outside its metadata.
AnomalySchema(doc) ==
  [id |-> doc.id, patientId |-> doc.patientId, severity |-> doc.severity,
   detectedAt |-> doc.detectedAt, alerts |-> doc.alerts,
   acknowledged |-> doc.acknowledged, anomalyScore |-> <<>>,
   metadata |-> <<>>]

\* What the AlertLog model stores of an object: the paths of alertLogSchema, of
\* which the object has patientId, message (not modelled) and timestamp.
AlertLogSchema(doc) ==
  [patientId |-> doc.patientId, alertType |-> <<>>, severity |-> <<>>,
   actionTaken |-> <<>>, timestamp |-> doc.timestamp, metadata |-> <<>>]

\* if (!existingAnomalySet.has(anomalyKey))
KeyIsNew(existingAnomalySet, anomalyKey) == anomalyKey \notin existingAnomalySet

\* if (updateDatabase), inside the branch of a new anomaly
ShouldSaveAlways(isNew, updateDatabase) == isNew

ShouldSave(isNew, updateDatabase) == isNew /\ updateDatabase

\* catch (error) { results.errors.push(`Error saving anomaly for ...`) }
SaveErrorsDropped(errors, failed, pid, record) == errors

SaveErrors(errors, failed, pid, record) ==
  IF failed
  THEN Append(errors, [kind |-> "save", patientId |-> pid, at |-> record.recordedAt])
  ELSE errors

\* vitals.bloodPressure.split("/") throws a TypeError when the record has no
\* bloodPressure (the schema does not require the field)
DetectionThrows(vitals) == vitals.bloodPressure = <<>>

\* the counters of results after one record
CountedResults(results, pid, detection, isNew) ==
  LET r1 == [results EXCEPT !.processed = @ + 1]
      r2 == IF isNew
            THEN [r1 EXCEPT !.newAnomaliesDetected = @ + 1,
                            !.patientsSummary[pid].newAnomalies = @ + 1]
            ELSE r1
  IN IF isNew /\ detection.severity = "critical"
     THEN [r2 EXCEPT !.criticalCount = @ + 1,
                     !.patientsSummary[pid].criticalAnomalies = @ + 1]
     ELSE IF isNew /\ detection.severity = "warning"
          THEN [r2 EXCEPT !.warningCount = @ + 1,
                          !.patientsSummary[pid].warningAnomalies = @ + 1]
          ELSE r2

\* the loop body of the next record: detectAnomalies and the counters, and
\* for a new anomaly that is to be stored, down to the await of Anomaly.create;
\* else the loop goes on with the record after it
RetroProcessRecord ==
  /\ run.pc = "records"
  /\ run.idx <= Len(run.recordsByPatient[run.pid])
  /\ LET pid == run.pid
         record == run.recordsByPatient[pid][run.idx]
         vitals == RecordVitals(record)
         detection == DetectionOf(dataWindow[retrospectiveDetector][pid], vitals, Profile(pid), hour)
         anomalyKey == AnomalyKey(pid, record.recordedAt)
         isNew == detection.isAnomaly /\ KeyIsNew(run.existingAnomalySet, anomalyKey)
         writes == ShouldSave(isNew, run.options.updateDatabase)
     IN /\ ~DetectionThrows(vitals)
        /\ anomalyHistory' = [anomalyHistory EXCEPT
                                ![retrospectiveDetector][pid] = PushHistory(@, vitals, detection)]
        /\ dataWindow' = [dataWindow EXCEPT ![retrospectiveDetector][pid] = PushWindow(@, vitals)]
        /\ result' = detection
        /\ lastCall' = Call("detect", retrospectiveDetector, pid, vitals)
        /\ run' = [run EXCEPT
                     !.pc = IF writes THEN "anomaly write" ELSE "records",
                     !.idx = IF writes THEN @ ELSE @ + 1,
                     !.results = CountedResults(@, pid, detection, isNew),
                     !.detection = detection,
                     !.lastOutcome = IF ~detection.isAnomaly THEN "normal"
                                     ELSE IF isNew THEN "new" ELSE "duplicate",
                     !.hoursSeen = @ \cup {hour}]
  /\ UNCHANGED <<HealthRecord, hour, cycles, scoreVars, dbVars, prevRun,
                 calls, returned, loaded, loading, steps>>

\* Anomaly.create has answered: the anomaly is stored, and its alert logs are
\* handed to AlertLog.insertMany (detectAnomalies returns an anomaly only with
\* an alert, so there is an alert log to insert)
RetroAnomalyCreated ==
  /\ run.pc = "anomaly write"
  /\ anomalies' = Append(anomalies,
                         AnomalySchema(AnomalyDoc(run.pid,
                                                  run.recordsByPatient[run.pid][run.idx],
                                                  run.detection)))
  /\ run' = [run EXCEPT !.pc = "alert log write", !.anomalyId = Len(anomalies) + 1]
  /\ UNCHANGED <<detVars, hour, cycles, scoreVars, patients, healthRecords, alertLogs,
                 prevRun, calls, returned, loaded, loading, lastCall, steps>>

\* AlertLog.insertMany has answered: the alert logs are stored, the key is
\* added to the set and the loop goes on with the next record
RetroAlertLogsInserted ==
  /\ run.pc = "alert log write"
  /\ LET pid == run.pid
         record == run.recordsByPatient[pid][run.idx]
         anomalyKey == AnomalyKey(pid, record.recordedAt)
     IN /\ alertLogs' = alertLogs
                          \o Map(AlertLogDocs(pid, record, run.detection, run.anomalyId),
                                 AlertLogSchema)
        /\ run' = [run EXCEPT
                     !.pc = "records",
                     !.idx = @ + 1,
                     !.existingAnomalySet = @ \cup {anomalyKey},
                     !.created = @ \cup {anomalyKey}]
  /\ UNCHANGED <<detVars, hour, cycles, scoreVars, patients, healthRecords, anomalies,
                 prevRun, calls, returned, loaded, loading, lastCall, steps>>

\* Anomaly.create or AlertLog.insertMany rejects: the catch around the two
\* writes pushes the error, and the loop goes on with the next record
RetroSaveFails ==
  /\ run.pc \in {"anomaly write", "alert log write"}
  /\ run' = [run EXCEPT
               !.pc = "records",
               !.idx = @ + 1,
               !.results.errors = SaveErrors(@, TRUE, run.pid,
                                             run.recordsByPatient[run.pid][run.idx])]
  /\ UNCHANGED <<detVars, hour, cycles, scoreVars, dbVars, prevRun, calls, returned, loaded,
                 loading, lastCall, steps>>

\* the records of the patient are done: resetPatient, and the next patient
RetroEndPatient ==
  /\ run.pc = "records"
  /\ run.idx > Len(run.recordsByPatient[run.pid])
  /\ dataWindow' = [dataWindow EXCEPT ![retrospectiveDetector][run.pid] = <<>>]
  /\ anomalyHistory' = [anomalyHistory EXCEPT ![retrospectiveDetector][run.pid] = <<>>]
  /\ run' = [run EXCEPT !.pc = "loop"]
  /\ UNCHANGED <<HealthRecord, result, hour, cycles, scoreVars, dbVars, prevRun, calls, returned,
                 loaded, loading, lastCall, steps>>

RetroFinish ==
  /\ run.pc = "loop"
  /\ run.todo = <<>>
  /\ run' = Returned200(run)
  /\ UNCHANGED <<detVars, hour, cycles, scoreVars, dbVars, prevRun, calls, returned, loaded,
                 loading, lastCall, steps>>

(***************************************************************************)
(* SpecRetro: a retrospective run and its repetition with the same         *)
(* options, over stored samples that do not change; the wall clock may     *)
(* move between the two runs                                               *)
(***************************************************************************)
\* n samples 5 minutes apart, all with motionLevel 0.7
ActiveHistory(n) ==
  [i \in 1..n |-> Record([Normal EXCEPT !.motionLevel = 70], 300 * i)]

\* a normal sample, two bradycardia samples within one minute, a fever sample
BradyHistory ==
  <<Record(Normal, 300), Record([Normal EXCEPT !.heartRate = 35], 600),
    Record([Normal EXCEPT !.heartRate = 35, !.fallRiskScore = 95], 630),
    Record([Normal EXCEPT !.bodyTemperature = 388], 900)>>

ShortHistory == <<Record([Normal EXCEPT !.spo2 = 880], 600)>>

RetroOptions ==
  {[patientId |-> p, startDate |-> r[1], endDate |-> r[2], updateDatabase |-> u] :
     p \in {"all", "P001"}, r \in {<<<<>>, <<>>>>, <<<<600>>, <<900>>>>},
     u \in BOOLEAN}

\* an anomaly the live service stored for P001's sample of 600
LiveAnomaly ==
  [id |-> 1, patientId |-> "P001", severity |-> "critical", detectedAt |-> 601,
   alerts |-> <<Alert("critical", "bradycardia")>>, acknowledged |-> FALSE,
   anomalyScore |-> <<30>>, metadata |-> <<>>]

InitRetro ==
  /\ cycles = NoCycles
  /\ dataWindow = [d \in Detectors |-> EmptyByPatient]
  /\ anomalyHistory = [d \in Detectors |-> EmptyByPatient]
  /\ HealthRecord = [d \in Detectors |-> TRUE]
  /\ result = NoResult
  /\ hour \in Hours
  /\ alertList = <<>>
  /\ scoreOut = calculateAnomalyScore(alertList)
  /\ patients = [p \in Patients |-> "active"]
  /\ \E h1 \in {ActiveHistory(MaxRecords), BradyHistory}, h2 \in {<<>>, ShortHistory} :
       healthRecords = [p \in Patients |-> IF p = "P001" THEN h1 ELSE h2]
  /\ anomalies \in {<<>>, <<LiveAnomaly>>}
  /\ alertLogs = <<>>
  /\ run = NoRun
  /\ prevRun = NoRun
  /\ calls = [p \in Patients |-> 0]
  /\ loaded = [p \in Patients |-> FALSE]
  /\ loading = [d \in Detectors |-> EmptyByPatient]
  /\ returned = EmptyByPatient
  /\ lastCall = NoCall
  /\ steps = 0

\* the hour changes between two runs
TickBetweenRuns ==
  /\ run.pc = "done"
  /\ prevRun.pc = "idle"
  /\ Tick

\* the second run repeats the options of the first
NextRetro ==
  \/ \E options \in RetroOptions :
       /\ run.pc = "done" => options = run.options
       /\ RetroStart(options)
  \/ RetroPatientsFound
  \/ RetroRecordsFound
  \/ RetroAnomaliesFound
  \/ RetroResetPatient
  \/ RetroLoadContext
  \/ RetroProcessRecord
  \/ RetroAnomalyCreated
  \/ RetroAlertLogsInserted
  \/ RetroEndPatient
  \/ RetroFinish
  \/ RetroSaveFails
  \/ TickBetweenRuns

SpecRetro == InitRetro /\ [][NextRetro]_vars

(***************************************************************************)
(* POST /api/anomalies/retrospective, and the awaits of the run that can   *)
(* throw: the three queries at its start, the context query of a patient,  *)
(* and detectAnomalies on a stored record without bloodPressure            *)
(***************************************************************************)
\* if (startDate): null, undefined and "" are falsy
Truthy(date) == date.text \notin {"null", ""}

\* isNaN(new Date(date).getTime())
IsNaNDate(date) == date.time = <<>>

\* options.startDate / options.endDate: set only for a truthy field
OptionDate(date) == IF Truthy(date) THEN date.time ELSE <<>>

\* the error of the 400 response, "none" when the body passes validation
ValidationError(body) ==
  IF Truthy(body.startDate) /\ IsNaNDate(body.startDate)
  THEN "Invalid startDate format"
  ELSE IF Truthy(body.endDate) /\ IsNaNDate(body.endDate)
       THEN "Invalid endDate format"
       ELSE IF /\ OptionDate(body.startDate) # <<>>
               /\ OptionDate(body.endDate) # <<>>
               /\ OptionDate(body.startDate)[1] > OptionDate(body.endDate)[1]
            THEN "startDate cannot be after endDate"
            ELSE "none"

OptionsOf(body) ==
  [patientId |-> body.patientId, startDate |-> OptionDate(body.startDate),
   endDate |-> OptionDate(body.endDate), updateDatabase |-> body.updateDatabase]

\* the run without its test of the model
ModelNotTested(d) == TRUE

\* if (!this.HealthRecord) { throw ... } negated: the run goes on
ModelInjected(d) == HealthRecord[d]

\* the route handler down to the call of the run: 400 for a body that fails
\* validation, else the run is called with the parsed options
PostRetrospective(body) ==
  /\ run.pc = "idle"
  /\ run' = IF ValidationError(body) # "none"
            THEN [run EXCEPT
                    !.pc = "rejected", !.body = body, !.anomaliesAtStart = anomalies,
                    !.response = [status |-> 400, success |-> "none",
                                  error |-> ValidationError(body)]]
            ELSE IF ~ModelInjected(retrospectiveDetector)
                 THEN [run EXCEPT
                         !.pc = "failed", !.body = body, !.anomaliesAtStart = anomalies,
                         !.response = [status |-> 500, success |-> "false",
                                       error |-> "HealthRecord model not injected"]]
                 ELSE [run EXCEPT !.pc = "accepted", !.body = body]
  /\ UNCHANGED <<detVars, hour, cycles, scoreVars, dbVars, prevRun, calls, returned, loaded, loading,
                 lastCall, steps>>

\* the route calls the run with the options of the body
RunAccepted ==
  /\ run.pc = "accepted"
  /\ RetroStart(OptionsOf(run.body))

\* the ids a request may name: those of the stored anomalies and one of none
AnomalyIds == 1..(Len(anomalies) + 1)

\* POST /:anomalyId/acknowledge, a request of its own, handled when no run is
\* under way or when the run is at an await: findByIdAndUpdate sets
\* acknowledged on the anomaly of the id and the document is sent back; for an
\* id of no stored anomaly nothing is changed and the answer is 404
PostAcknowledge(anomalyId) ==
  /\ AtAwait(run)
  /\ anomalies' = [i \in 1..Len(anomalies) |->
                     IF anomalies[i].id = anomalyId
                     THEN [anomalies[i] EXCEPT !.acknowledged = TRUE]
                     ELSE anomalies[i]]
  /\ UNCHANGED <<detVars, hour, cycles, scoreVars, patients, healthRecords, alertLogs,
                 runVars, calls, returned, loaded, loading, lastCall, steps>>

\* detectAnomalies throws on the record: it was counted in processed, the loop
\* and the resetPatient after it are skipped
RetroDetectionThrows ==
  /\ run.pc = "records"
  /\ run.idx <= Len(run.recordsByPatient[run.pid])
  /\ DetectionThrows(RecordVitals(run.recordsByPatient[run.pid][run.idx]))
  /\ run' = Caught([run EXCEPT !.results.processed = @ + 1], "detection")
  /\ UNCHANGED <<detVars, hour, cycles, scoreVars, dbVars, prevRun, calls, returned, loaded, loading,
                 lastCall, steps>>

(***************************************************************************)
(* SpecRoute: one request to the retrospective route, on stored samples of  *)
(* one or two patients, the second of them active, inactive or without a   *)
(* profile, and requests that acknowledge a stored anomaly                 *)
(***************************************************************************)
\* P001's samples: the third has no bloodPressure
FaultyHistory ==
  <<Record(Normal, 300), Record([Normal EXCEPT !.heartRate = 35], 600),
    [Record(Normal, 900) EXCEPT !.bloodPressure = <<>>]>>

\* samples of P002 stored before the first of P001
EarlyHistory ==
  <<Record([Normal EXCEPT !.spo2 = 880], 100), Record(Normal, 700)>>

DatePairs ==
  {<<NullDate, NullDate>>, <<EmptyDate, NullDate>>, <<NullDate, EmptyDate>>,
   <<BadDate, NullDate>>, <<NullDate, BadDate>>,
   <<IsoDate(600), IsoDate(900)>>, <<IsoDate(900), IsoDate(600)>>}

RetroBodies ==
  {[patientId |-> p, startDate |-> d[1], endDate |-> d[2], updateDatabase |-> u] :
     p \in {"all", "P001", "P002"}, d \in DatePairs, u \in BOOLEAN}

InitRoute ==
  /\ cycles = NoCycles
  /\ dataWindow = [d \in Detectors |-> EmptyByPatient]
  /\ anomalyHistory = [d \in Detectors |-> EmptyByPatient]
  /\ HealthRecord = [d \in Detectors |-> TRUE]
  /\ result = NoResult
  /\ hour = 12
  /\ alertList = <<>>
  /\ scoreOut = calculateAnomalyScore(alertList)
  /\ \E status \in {"active", "inactive", "absent"} :
       patients = [p \in Patients |-> IF p = "P001" THEN "active" ELSE status]
  /\ \E h1 \in {BradyHistory, FaultyHistory}, h2 \in {<<>>, ShortHistory, EarlyHistory} :
       healthRecords = [p \in Patients |-> IF p = "P001" THEN h1 ELSE h2]
  /\ anomalies \in {<<>>, <<LiveAnomaly>>}
  /\ alertLogs = <<>>
  /\ run = NoRun
  /\ prevRun = NoRun
  /\ calls = [p \in Patients |-> 0]
  /\ loaded = [p \in Patients |-> FALSE]
  /\ loading = [d \in Detectors |-> EmptyByPatient]
  /\ returned = EmptyByPatient
  /\ lastCall = NoCall
  /\ steps = 0

NextRoute ==
  \/ \E body \in RetroBodies : PostRetrospective(body)
  \/ \E anomalyId \in AnomalyIds : PostAcknowledge(anomalyId)
  \/ RunAccepted
  \/ RetroQueryFails
  \/ RetroContextFails
  \/ RetroSaveFails
  \/ RetroDetectionThrows
  \/ RetroPatientsFound
  \/ RetroRecordsFound
  \/ RetroAnomaliesFound
  \/ RetroResetPatient
  \/ RetroLoadContext
  \/ RetroProcessRecord
  \/ RetroAnomalyCreated
  \/ RetroAlertLogsInserted
  \/ RetroEndPatient
  \/ RetroFinish

SpecRoute == InitRoute /\ [][NextRoute]_vars

(***************************************************************************)
(* Properties of detectAnomalies, addToWindow and calculateAnomalyScore    *)
(***************************************************************************)
Detected == lastCall.op = "detect"
HasAlert(alerts, t, c) == \E i \in 1..Len(alerts) : alerts[i] = Alert(t, c)
CountCategory(alerts, c) == Cardinality({i \in 1..Len(alerts) : alerts[i].category = c})
ConstantHeartRate(window) ==
  \A i \in 1..Len(window) : window[i].heartRate = window[1].heartRate

\* C1: the severity detectAnomalies returns is critical if a returned alert is
\* critical, else warning if an alert was returned, else normal.
C1_SeverityIsMaxOfAlerts ==
  Detected =>
    result.severity = IF SomeCritical(result.alerts) THEN "critical"
                      ELSE IF Len(result.alerts) > 0 THEN "warning"
                      ELSE "normal"

\* C2: a sample whose heartRate is below the patient's lower critical bound, on
\* any window, gets a critical bradycardia alert and severity critical.
C2_BradycardiaCritical ==
  (Detected /\ lastCall.vitals.heartRate < Profile(lastCall.patient).hrCritical[1])
    => /\ HasAlert(result.alerts, "critical", "bradycardia")
       /\ result.severity = "critical"

C2_Witness ==
  /\ Detected
  /\ lastCall.vitals.heartRate < Profile(lastCall.patient).hrCritical[1]
  /\ Len(lastCall.window) >= MinStatWindow
  /\ HasAlert(result.alerts, "critical", "bradycardia")

\* C3: fallRiskScore > 80 gives exactly one fall_detected alert, critical, and
\* severity critical, whatever the other vitals and the window; fallRiskScore
\* <= 80 gives no fall_detected alert.
C3_FallDetected ==
  Detected =>
    IF lastCall.vitals.fallRiskScore > 80
    THEN /\ CountCategory(result.alerts, "fall_detected") = 1
         /\ HasAlert(result.alerts, "critical", "fall_detected")
         /\ result.severity = "critical"
    ELSE CountCategory(result.alerts, "fall_detected") = 0

C3_Witness ==
  /\ Detected
  /\ lastCall.vitals.fallRiskScore > 80
  /\ lastCall.vitals.heartRate < Profile(lastCall.patient).hrCritical[1]
  /\ CountCategory(result.alerts, "fall_detected") = 1

\* C6: after n addToWindow/detectAnomalies calls since the last reset (and no
\* loadHistoricalData), the window is the last min(n, 288) samples in insertion
\* order; the n-th sample carries timestamp n.
C6_WindowIsLastSamples ==
  \A p \in Patients :
    ~loaded[p] =>
      LET window == dataWindow["live"][p]
          m == Min(calls[p], 288)
      IN /\ Len(window) = m
         /\ \A i \in 1..m : window[i].timestamp = calls[p] - m + i

C6_Witness ==
  /\ calls["P001"] = 289
  /\ ~loaded["P001"]
  /\ Len(dataWindow["live"]["P001"]) = 288
  /\ dataWindow["live"]["P001"][1].timestamp = 2

\* C7: every patient's window holds at most 288 samples, whatever the sequence
\* of loadHistoricalData, addToWindow, detectAnomalies and resetPatient calls.
C7_WindowAtMostCap ==
  \A d \in Detectors, p \in Patients : Len(dataWindow[d][p]) <= 288

\* C8: on a window of 12 entries of constant heartRate, a sample with |z| > 2.5
\* (z = heartRate - constant, the deviation being 0) gets an hr_anomaly warning;
\* on a window of 11 entries no hr_anomaly and no spo2_declining is returned.
C8_HrAnomalyNeedsTwelve ==
  /\ (Detected /\ Len(lastCall.window) = 12 /\ ConstantHeartRate(lastCall.window)
        /\ 2 * Abs(lastCall.vitals.heartRate - lastCall.window[1].heartRate) > 5)
       => HasAlert(result.alerts, "warning", "hr_anomaly")
  /\ (Detected /\ Len(lastCall.window) = 11)
       => /\ CountCategory(result.alerts, "hr_anomaly") = 0
          /\ CountCategory(result.alerts, "spo2_declining") = 0

C8_Witness ==
  /\ Detected
  /\ Len(lastCall.window) = 12
  /\ ConstantHeartRate(lastCall.window)
  /\ lastCall.vitals.heartRate = 110
  /\ HasAlert(result.alerts, "warning", "hr_anomaly")

\* C9: on a window of 10 entries whose spo2 falls from 98 to 90.8 in steps of
\* 0.8, a sample with spo2 = 93 gets a spo2_declining warning.
C9_DecliningTenEntries ==
  (Detected /\ lastCall.window = DeclineWindow(10) /\ lastCall.vitals.spo2 = 930)
    => HasAlert(result.alerts, "warning", "spo2_declining")

\* C10: the score is min(100, 30 * criticals + 10 * warnings): 0 for the empty
\* list, at most 100, and not smaller after an alert is added to the list.
ScoreFormula(alerts) ==
  LET c == Cardinality({i \in 1..Len(alerts) : alerts[i].type = "critical"})
      w == Cardinality({i \in 1..Len(alerts) : alerts[i].type = "warning"})
  IN IF 30 * c + 10 * w > 100 THEN 100 ELSE 30 * c + 10 * w

C10_ScoreState ==
  /\ scoreOut = ScoreFormula(alertList)
  /\ scoreOut <= 100
  /\ alertList = <<>> => scoreOut = 0
  /\ Detected => result.normalizedScore = ScoreFormula(result.alerts)

C10_ScoreStep ==
  (Len(alertList') = Len(alertList) + 1 /\ SubSeq(alertList', 1, Len(alertList)) = alertList)
    => scoreOut' >= scoreOut

C10_Score == []C10_ScoreState /\ [][C10_ScoreStep]_vars

C10_Witness ==
  /\ Len(alertList) = MaxAlerts
  /\ 30 * Count(alertList, IsCritical) + 10 * Count(alertList, IsWarning) > 100
  /\ scoreOut = 100

\* C13: the anomaly history of a patient is the entries {timestamp, alerts,
\* severity} of the most recent min(k, 100) detectAnomalies calls since the
\* last reset that returned an alert, in call order; calls that returned no
\* alert add nothing, and the history never holds more than 100 entries.
C13_HistoryState ==
  \A p \in Patients :
    LET flagged == returned[p]
        k == Len(flagged)
        m == IF k < 100 THEN k ELSE 100
        history == anomalyHistory["live"][p]
    IN /\ Len(history) = m
       /\ Len(history) <= 100
       /\ \A i \in 1..m : history[i] = flagged[k - m + i]

C13_QuietStep ==
  (lastCall'.op = "detect" /\ lastCall'.detector = "live" /\ lastCall' # lastCall
     /\ Len(result'.alerts) = 0)
    => anomalyHistory' = anomalyHistory

C13_HistoryIsLastFlagged == []C13_HistoryState /\ [][C13_QuietStep]_vars

C13_Witness ==
  LET flagged == returned["P001"]
  IN /\ Len(flagged) = 101
     /\ calls["P001"] > Len(flagged)
     /\ \A i \in 1..Len(flagged) : Len(flagged[i].alerts) > 0
     /\ Len(anomalyHistory["live"]["P001"]) = 100
     /\ anomalyHistory["live"]["P001"][1].timestamp = flagged[2].timestamp
     /\ anomalyHistory["live"]["P001"][100].timestamp = calls["P001"]

\* the categories checkCriticalVitals can return
ThresholdCategories ==
  {"bradycardia", "tachycardia", "hypertensive_crisis", "hypotension",
   "hypoxemia", "fever", "hypothermia"}

\* the alerts of checkCriticalVitals within the alerts of a detectAnomalies call
ThresholdAlertsOf(alerts) ==
  SelectSeq(alerts, LAMBDA a : a.category \in ThresholdCategories)

One(cond, t, c) == IF cond THEN <<Alert(t, c)>> ELSE <<>>

\* C11: checkCriticalVitals returns, in this order: bradycardia iff heartRate <
\* hrCritical[0], else tachycardia iff heartRate > hrCritical[1]; hypertensive
\* crisis iff systolic > bpCritical[0], else hypotension iff systolic <
\* bpCritical[1]; hypoxemia iff spo2 < spo2Critical; fever (a warning) iff
\* bodyTemperature > 38.5, else hypothermia iff bodyTemperature < 35.0; all but
\* fever are critical.
C11_ThresholdAlerts ==
  Detected =>
    LET v == lastCall.vitals
        t == Profile(lastCall.patient)
        sys == v.bloodPressure[1]
    IN ThresholdAlertsOf(result.alerts) =
         One(v.heartRate < t.hrCritical[1], "critical", "bradycardia")
         \o One(v.heartRate >= t.hrCritical[1] /\ v.heartRate > t.hrCritical[2],
                "critical", "tachycardia")
         \o One(sys > t.bpCritical[1], "critical", "hypertensive_crisis")
         \o One(sys <= t.bpCritical[1] /\ sys < t.bpCritical[2], "critical", "hypotension")
         \o One(v.spo2 < t.spo2Critical, "critical", "hypoxemia")
         \o One(v.bodyTemperature > 385, "warning", "fever")
         \o One(v.bodyTemperature <= 385 /\ v.bodyTemperature < 350,
                "critical", "hypothermia")

C11_Witness ==
  /\ Detected
  /\ lastCall.vitals.bodyTemperature > 385
  /\ lastCall.vitals.heartRate > Profile(lastCall.patient).hrCritical[2]
  /\ Len(ThresholdAlertsOf(result.alerts)) = 3
  /\ HasAlert(result.alerts, "warning", "fever")

\* C12: a sample whose heartRate equals the lower critical bound (45 for P001,
\* hrCritical = [45, 130]) is reported as an anomaly with a bradycardia alert
\* and severity critical.
C12_BradycardiaAtBound ==
  (Detected /\ lastCall.patient = "P001" /\ lastCall.vitals.heartRate = 45)
    => /\ result.isAnomaly
       /\ CountCategory(result.alerts, "bradycardia") = 1
       /\ result.severity = "critical"

(***************************************************************************)
(* Properties of the retrospective run                                     *)
(***************************************************************************)
\* C4: a run repeated with the same options and updateDatabase = true over the
\* same stored samples (every write of both runs having succeeded) reports
\* newAnomaliesDetected = 0 and creates no anomaly record, whatever the hour
\* of each run.
C4_SecondRunFindsNothing ==
  (/\ run.pc = "done" /\ prevRun.pc = "done"
   /\ run.options = prevRun.options
   /\ run.options.updateDatabase
   /\ prevRun.results.errors = <<>> /\ run.results.errors = <<>>)
    => /\ run.results.newAnomaliesDetected = 0
       /\ anomalies = run.anomaliesAtStart

\* the record about to be replayed has the same patient and clock minute as an
\* anomaly that was stored, inside the query, when the run started, or as an
\* anomaly this run has created
ReplayedKeyKnown ==
  LET record == run.recordsByPatient[run.pid][run.idx]
      minute == record.recordedAt \div 60
  IN \/ \E i \in 1..Len(run.anomaliesAtStart) :
          LET a == run.anomaliesAtStart[i]
          IN /\ a.patientId = run.pid
             /\ run.options.patientId \in {"all", run.pid}
             /\ InRange(a.detectedAt, run.options)
             /\ a.detectedAt \div 60 = minute
     \/ \E k \in run.created : k[1] = run.pid /\ k[2] \div 60 = minute

\* a step of the run replays a record: detectAnomalies has returned and the
\* run is at the next record or at the await of the record's first write
ReplayStep ==
  /\ run.pc = "records"
  /\ run'.pc \in {"records", "anomaly write"}
  /\ run'.results.processed = run.results.processed + 1

C5_DuplicateStep ==
  (ReplayStep /\ result'.isAnomaly /\ ReplayedKeyKnown)
    => /\ run'.results.newAnomaliesDetected = run.results.newAnomaliesDetected
       /\ run'.pc = "records"
       /\ run'.idx = run.idx + 1
       /\ anomalies' = anomalies
       /\ alertLogs' = alertLogs

\* C5: a flagged replayed sample whose dedup key is among the anomalies fetched
\* at the start of the run or created earlier in the run counts as processed,
\* is not counted as new, and no anomaly or alert-log record is written for it.
C5_DuplicateSkipped == [][C5_DuplicateStep]_vars

C5_Witness ==
  /\ run.lastOutcome = "duplicate"
  /\ run.anomaliesAtStart = <<>>
  /\ run.created # {}
  /\ run.results.processed >= 2
  /\ run.results.newAnomaliesDetected = 1

(***************************************************************************)
(* Properties of the route and of the failures of a run                    *)
(***************************************************************************)
\* the field was sent and is not a date
Unparseable(date) == date.text # "null" /\ date.time = <<>>

StartAfterEnd(body) ==
  /\ body.startDate.time # <<>> /\ body.endDate.time # <<>>
  /\ body.startDate.time[1] > body.endDate.time[1]

\* the anomaly records apart from their acknowledgement, which is the write of
\* the acknowledge request and of no run
AsCreated(docs) == [i \in 1..Len(docs) |-> [docs[i] EXCEPT !.acknowledged = FALSE]]

\* C14: a request whose startDate or endDate is not a parseable date, or whose
\* startDate is after its endDate, is answered with 400 before any processing:
\* no run starts, no detector state changes and nothing is written.
C14_BadDatesRejected ==
  (/\ run.pc # "idle"
   /\ \/ Unparseable(run.body.startDate)
      \/ Unparseable(run.body.endDate)
      \/ StartAfterEnd(run.body))
    => /\ run.pc = "rejected"
       /\ run.response.status = 400
       /\ run.results = EmptyResults
       /\ dataWindow["retro"] = EmptyByPatient
       /\ AsCreated(anomalies) = AsCreated(run.anomaliesAtStart)
       /\ alertLogs = <<>>

C15_Step ==
  /\ (run'.pc # "idle" /\ ~run'.options.updateDatabase)
       => AsCreated(anomalies') = AsCreated(anomalies) /\ alertLogs' = alertLogs
  /\ (ReplayStep /\ ~run.options.updateDatabase /\ result'.isAnomaly /\ ~ReplayedKeyKnown)
       => run'.results.newAnomaliesDetected = run.results.newAnomaliesDetected + 1

\* C15: while a run with updateDatabase = false is under way no anomaly record
\* and no alert-log entry is written (the stored anomalies change in nothing but
\* the acknowledgement a request may set meanwhile), and the run still counts
\* every flagged sample that has no stored anomaly in newAnomaliesDetected.
C15_NoWriteWithoutUpdate == [][C15_Step]_vars

C15_Witness ==
  /\ run.pc = "done"
  /\ ~run.options.updateDatabase
  /\ run.results.newAnomaliesDetected >= 3
  /\ anomalies = <<>>
  /\ alertLogs = <<>>

\* the patient's profile is among those the run fetched
Resolved(p, options) ==
  \/ options.patientId = p /\ patients[p] # "absent"
  \/ options.patientId = "all" /\ patients[p] = "active"

\* the records the run fetched for the patients whose profile it fetched
ReplayableCount(options) ==
  LET n(p) == IF Resolved(p, options)
              THEN Len(SelectSeq(healthRecords[p],
                                 LAMBDA r : /\ options.patientId \in {"all", p}
                                            /\ InRange(r.recordedAt, options)))
              ELSE 0
  IN n("P001") + n("P002")

\* a write of the record's anomaly or alert logs was awaited and nothing was
\* stored: it has failed
WriteFails ==
  /\ run.pc \in {"anomaly write", "alert log write"}
  /\ run'.pc # run.pc
  /\ anomalies' = anomalies /\ alertLogs' = alertLogs

C16_Step ==
  WriteFails
    => LET errors == run'.results.errors
       IN /\ run'.pc = "records"
          /\ run'.idx = run.idx + 1
          /\ Len(errors) = Len(run.results.errors) + 1
          /\ errors[Len(errors)].kind = "save"
          /\ errors[Len(errors)].patientId = run.pid
          /\ SubSeq(errors, 1, Len(errors) - 1) = run.results.errors

C16_State ==
  (run.pc = "done" /\ run.thrown = "none")
    => /\ run.response.status = 200
       /\ run.results.processed = ReplayableCount(run.options)

\* C16: with updateDatabase = true, a failed write for a flagged record is
\* appended to errors and the replay goes on: when no exception other than
\* failed writes occurred, the run returns a summary in which every fetched
\* record of every patient with a profile is counted as processed.
C16_SaveFailureGoesOn == []C16_State /\ [][C16_Step]_vars

C16_Witness ==
  /\ run.pc = "done"
  /\ run.thrown = "none"
  /\ run.options.updateDatabase
  /\ Len(run.results.errors) >= 2
  /\ run.results.errors[1].kind = "save"
  /\ run.results.errors[1].patientId = "P002"
  /\ "P001" \in DOMAIN run.results.patientsSummary
  /\ run.results.processed = 6

\* C17: an exception raised while one patient is processed (in the context
\* query or in the detection of a sample) is added to errors, the remaining
\* patients are still processed, and the run returns a summary.
C17_ExceptionKeptToPatient ==
  (run.pc = "done" /\ run.thrown \in {"context query", "detection"})
    => /\ run.response.status = 200
       /\ Len(run.results.errors) > 0
       /\ \A p \in Patients :
            (Resolved(p, run.options) /\ Len(run.recordsByPatient[p]) > 0)
              => p \in DOMAIN run.results.patientsSummary

\* C18: when a query of the run fails because the database is unavailable,
\* the endpoint answers 500 with success = false and an error message.
C18_DatabaseError500 ==
  (run.pc = "done" /\ run.thrown \in StartQueries \cup {"context query"})
    => /\ run.response.status = 500
       /\ run.response.success = "false"
       /\ run.response.error # "none"

C19_State ==
  \A p \in Patients :
    (/\ run.pc = "done" /\ run.thrown = "none"
     /\ Len(run.recordsByPatient[p]) > 0
     /\ ~Resolved(p, run.options))
      => /\ \E i \in 1..Len(run.results.errors) :
              /\ run.results.errors[i].kind = "not found"
              /\ run.results.errors[i].patientId = p
         /\ p \notin DOMAIN run.results.patientsSummary
         /\ run.results.processed = ReplayableCount(run.options)
         /\ \A q \in Patients :
              (Resolved(q, run.options) /\ Len(run.recordsByPatient[q]) > 0)
                => /\ q \in DOMAIN run.results.patientsSummary
                   /\ run.results.patientsSummary[q].recordsProcessed
                        = Len(run.recordsByPatient[q])

C19_Step ==
  (lastCall' # lastCall /\ lastCall'.detector = "retro")
    => Resolved(lastCall'.patient, run.options)

\* C19: when the fetched samples include those of a patient whose profile the
\* run did not fetch, the run records an error naming the patient, passes none
\* of the patient's samples to detection, does not count them as processed,
\* and replays the other patients as usual.
C19_UnknownPatientSkipped == []C19_State /\ [][C19_Step]_vars

C19_Witness ==
  /\ run.pc = "done"
  /\ run.thrown = "none"
  /\ patients["P002"] = "absent"
  /\ Len(run.recordsByPatient["P002"]) = 2
  /\ Len(run.results.errors) = 1
  /\ run.results.errors[1].patientId = "P002"
  /\ run.results.processed = 4
  /\ run.results.newAnomaliesDetected > 0

\* C20: when the run returns, the window and the anomaly history of every
\* patient whose replay it started are empty.
C20_NoReplayStateLeft ==
  run.pc = "done"
    => \A p \in DOMAIN run.results.patientsSummary :
         /\ dataWindow["retro"][p] = <<>>
         /\ anomalyHistory["retro"][p] = <<>>

(***************************************************************************)
(* SpecReset: two patients on one detector, each given a few samples, some *)
(* of them flagged, and reset at any point                                 *)
(***************************************************************************)
MaxResetCalls == 2   \* detectAnomalies calls per patient and reset in SpecReset

ResetInputs == {Normal, [Normal EXCEPT !.heartRate = 44]}

InitReset ==
  /\ InitCommon
  /\ dataWindow = [d \in Detectors |-> EmptyByPatient]
  /\ calls = [p \in Patients |-> 0]
  /\ HealthRecord = [d \in Detectors |-> d = "live"]
  /\ hour = 12
  /\ healthRecords = SmallDb

NextReset ==
  \/ \E p \in Patients, v \in ResetInputs :
       /\ calls[p] < MaxResetCalls
       /\ detectAnomalies("live", p, At(v, calls[p] + 1))
  \/ \E p \in Patients :
       /\ calls[p] > 0
       /\ resetPatient("live", p)

SpecReset == InitReset /\ [][NextReset]_vars

(***************************************************************************)
(* SpecInject: a detector built without a HealthRecord model, as in the    *)
(* unit tests; samples are given to it, the model may be injected, and the *)
(* run is called before or after the injection                             *)
(***************************************************************************)
MaxInjectCalls == 2  \* detectAnomalies calls before the run in SpecInject

InitInject ==
  /\ InitCommon
  /\ dataWindow = [d \in Detectors |-> EmptyByPatient]
  /\ calls = [p \in Patients |-> 0]
  /\ HealthRecord = [d \in Detectors |-> d = "live"]
  /\ hour = 12
  /\ healthRecords = [p \in Patients |-> IF p = "P001" THEN BradyHistory ELSE ShortHistory]

NextInject ==
  \/ /\ run.pc = "idle"
     /\ setHealthRecordModel("retro")
  \/ \E p \in Patients, v \in ResetInputs :
       /\ run.pc = "idle"
       /\ Len(dataWindow["retro"][p]) < MaxInjectCalls
       /\ detectAnomalies("retro", p, At(v, Len(dataWindow["retro"][p]) + 1))
  \/ \E body \in RetroBodies : PostRetrospective(body)
  \/ RunAccepted
  \/ RetroQueryFails
  \/ RetroSaveFails
  \/ RetroPatientsFound
  \/ RetroRecordsFound
  \/ RetroAnomaliesFound
  \/ RetroResetPatient
  \/ RetroLoadContext
  \/ RetroProcessRecord
  \/ RetroAnomalyCreated
  \/ RetroAlertLogsInserted
  \/ RetroEndPatient
  \/ RetroFinish

SpecInject == InitInject /\ [][NextInject]_vars

(***************************************************************************)
(* SpecLive: the monitoring service goes on calling detectAnomalies on its *)
(* detector while a run started through the route is under way; its n-th   *)
(* sample for a patient carries timestamp n, the stored samples 300 and up *)
(***************************************************************************)
MaxLiveCalls == 2    \* detectAnomalies calls of the service per patient in SpecLive

LiveBodies == {NoBody, [NoBody EXCEPT !.patientId = "P001", !.updateDatabase = FALSE]}

InitLive ==
  /\ InitCommon
  /\ dataWindow = [d \in Detectors |-> EmptyByPatient]
  /\ calls = [p \in Patients |-> 0]
  /\ HealthRecord = [d \in Detectors |-> TRUE]
  /\ hour = 12
  /\ healthRecords = [p \in Patients |-> IF p = "P001" THEN BradyHistory ELSE ShortHistory]

\* a callback of the service runs when the run is at an await, or before
\* the request or after the response
NextLive ==
  \/ \E p \in Patients, v \in ResetInputs :
       /\ calls[p] < MaxLiveCalls
       /\ AtAwait(run)
       /\ detectAnomalies("live", p, At(v, calls[p] + 1))
  \/ \E body \in LiveBodies : PostRetrospective(body)
  \/ RunAccepted
  \/ RetroPatientsFound
  \/ RetroRecordsFound
  \/ RetroAnomaliesFound
  \/ RetroResetPatient
  \/ RetroLoadContext
  \/ RetroProcessRecord
  \/ RetroAnomalyCreated
  \/ RetroAlertLogsInserted
  \/ RetroEndPatient
  \/ RetroFinish

SpecLive == InitLive /\ [][NextLive]_vars

(***************************************************************************)
(* SpecPair: two detectors, each holding a window for P001 and the history *)
(* it has if the window was filled by addToWindow or by detectAnomalies;   *)
(* P001's sample goes to the first detector and then, with the same or     *)
(* another timestamp and perhaps at another hour, to the second            *)
(***************************************************************************)
RECURSIVE HistoryAfter(_, _, _, _)
\* the anomaly history after detectAnomalies was called, at hour h, with the
\* first n entries of window in turn
HistoryAfter(window, n, p, h) ==
  IF n = 0
  THEN <<>>
  ELSE PushHistory(HistoryAfter(window, n - 1, p, h), window[n],
                   DetectionOf(SubSeq(window, 1, n - 1), window[n], Profile(p), h))

PairWindows ==
  {ConstWindow(12), NearConstWindow(12), ActiveWindow(8), StillWindow(25),
   Append(ConstWindow(11), At([Normal EXCEPT !.heartRate = 44], 12))}

PairHistories(window) ==
  {<<>>} \cup {HistoryAfter(window, Len(window), "P001", h) : h \in Hours}

PairInputs ==
  {Normal, [Normal EXCEPT !.heartRate = 74], [Normal EXCEPT !.heartRate = 44],
   [Normal EXCEPT !.motionLevel = 70], [Normal EXCEPT !.motionLevel = 2],
   Vitals(75, 140, 980, 388, 70, 10)}

\* timestamps of the second sample: the next in the window, or noon
PairTimes(window) == {Len(window) + 1, 43200}

InitPair ==
  /\ cycles = NoCycles
  /\ result = NoResult
  /\ alertList = <<>>
  /\ scoreOut = calculateAnomalyScore(alertList)
  /\ lastCall = NoCall
  /\ patients = [p \in Patients |-> "active"]
  /\ anomalies = <<>>
  /\ alertLogs = <<>>
  /\ run = NoRun
  /\ prevRun = NoRun
  /\ loaded = [p \in Patients |-> FALSE]
  /\ loading = [d \in Detectors |-> EmptyByPatient]
  /\ steps = 0
  /\ \E w1 \in PairWindows, w2 \in PairWindows, other \in {<<>>, ActiveWindow(7)} :
       \E h1 \in PairHistories(w1), h2 \in PairHistories(w2) :
         /\ dataWindow = [d \in Detectors |->
                            IF d = "live"
                            THEN [p \in Patients |-> IF p = "P001" THEN w1 ELSE other]
                            ELSE [EmptyByPatient EXCEPT !["P001"] = w2]]
         /\ anomalyHistory = [d \in Detectors |->
                                [EmptyByPatient EXCEPT
                                   !["P001"] = IF d = "live" THEN h1 ELSE h2]]
         /\ calls = [p \in Patients |-> IF p = "P001" THEN Len(w1) ELSE Len(other)]
         /\ returned = [EmptyByPatient EXCEPT !["P001"] = h1]
  /\ HealthRecord = [d \in Detectors |-> d = "live"]
  /\ hour \in Hours
  /\ healthRecords = SmallDb

NextPair ==
  \/ \E v \in PairInputs :
       /\ lastCall.op = "none"
       /\ detectAnomalies("live", "P001", At(v, calls["P001"] + 1))
  \/ /\ lastCall.op = "detect" /\ lastCall.detector = "live"
     /\ Tick
  \/ \E v \in PairInputs, t \in PairTimes(dataWindow["retro"]["P001"]) :
       /\ lastCall.op = "detect" /\ lastCall.detector = "live"
       /\ detectAnomalies("retro", "P001", At(v, t))

SpecPair == InitPair /\ [][NextPair]_vars

(***************************************************************************)
(* SpecOrder: one detectAnomalies call taken statement by statement: the   *)
(* evaluators, then the two writes in the order the method makes them.     *)
(* lastCall.op is "evaluated" after the evaluators, "half" after the first *)
(* write and "detect" when the call has returned; result holds the alerts  *)
(* and severity computed by the evaluators.                                *)
(***************************************************************************)
MaxOrderCalls == 1   \* detectAnomalies calls in SpecOrder

detectEvaluate(d, p, vitals) ==
  /\ lastCall.op \notin {"evaluated", "half"}
  /\ result' = DetectionOf(dataWindow[d][p], vitals, Profile(p), hour)
  /\ lastCall' = Call("evaluated", d, p, vitals)
  /\ steps' = steps + 1
  /\ UNCHANGED <<dataWindow, anomalyHistory, HealthRecord, hour, cycles, scoreVars,
                 dbVars, runVars, calls, returned, loaded, loading>>

\* the two writes of the call, one a step: first
\* if (alerts.length > 0) { this.anomalyHistory[patientId].push(...) ... },
\* then this.addToWindow(patientId, vitals)
detectEffect ==
  /\ lastCall.op \in {"evaluated", "half"}
  /\ LET d == lastCall.detector
         p == lastCall.patient
         vitals == lastCall.vitals
         k == IF lastCall.op = "evaluated" THEN 1 ELSE 2
     IN /\ IF k = 1
           THEN /\ anomalyHistory' = [anomalyHistory EXCEPT
                                        ![d][p] = PushHistory(@, vitals, result)]
                /\ UNCHANGED dataWindow
           ELSE /\ dataWindow' = [dataWindow EXCEPT ![d][p] = PushWindow(@, vitals)]
                /\ UNCHANGED anomalyHistory
        /\ lastCall' = [lastCall EXCEPT !.op = IF k = 1 THEN "half" ELSE "detect"]
        /\ calls' = IF k = 2 /\ d = "live" THEN [calls EXCEPT ![p] = @ + 1] ELSE calls
        /\ returned' = IF k = 2 /\ d = "live" /\ Len(result.alerts) > 0
                       THEN [returned EXCEPT ![p] = Append(@, Returned(vitals, result))]
                       ELSE returned
  /\ UNCHANGED <<HealthRecord, result, hour, cycles, scoreVars, dbVars, runVars, loaded, loading, steps>>

OrderWindows == {ConstWindow(0), ConstWindow(12), ActiveWindow(7)}

InitOrder ==
  /\ InitCommon
  /\ \E w \in OrderWindows :
       /\ dataWindow = [d \in Detectors |->
                          IF d = "live" THEN [EmptyByPatient EXCEPT !["P001"] = w]
                          ELSE EmptyByPatient]
       /\ calls = [p \in Patients |-> IF p = "P001" THEN Len(w) ELSE 0]
  /\ HealthRecord = [d \in Detectors |-> d = "live"]
  /\ hour \in Hours
  /\ healthRecords = SmallDb

NextOrder ==
  \/ /\ steps < MaxOrderCalls
     /\ \E p \in Patients, v \in SampleInputs :
          detectEvaluate("live", p, At(v, calls[p] + 1))
  \/ detectEffect

SpecOrder == InitOrder /\ [][NextOrder]_vars

(***************************************************************************)
(* Claims C21..C30                                                         *)
(***************************************************************************)
Slots == Detectors \X Patients

C25_Step ==
  /\ (lastCall' # lastCall /\ lastCall'.op = "reset")
       => LET d == lastCall'.detector
              p == lastCall'.patient
          IN /\ dataWindow'[d][p] = <<>>
             /\ anomalyHistory'[d][p] = <<>>
             /\ \A s \in Slots \ {<<d, p>>} :
                  /\ dataWindow'[s[1]][s[2]] = dataWindow[s[1]][s[2]]
                  /\ anomalyHistory'[s[1]][s[2]] = anomalyHistory[s[1]][s[2]]
  /\ (lastCall.op = "reset" /\ lastCall'.op = "detect"
         /\ lastCall'.detector = lastCall.detector
         /\ lastCall'.patient = lastCall.patient)
       => /\ lastCall'.window = <<>>
          /\ dataWindow'[lastCall'.detector][lastCall'.patient] = <<lastCall'.vitals>>

\* C25: resetPatient(S) leaves S with an empty window and an empty anomaly
\* history, so that the next detectAnomalies for S sees no earlier sample, and
\* leaves the window and the history of every other patient as they were.
C25_ResetClearsOnlyPatient == [][C25_Step]_vars

\* P001 was reset while holding a flagged sample, P002 keeps window and history
C25_Witness ==
  /\ lastCall.op = "reset" /\ lastCall.patient = "P001"
  /\ \E i \in 1..Len(lastCall.window) : lastCall.window[i].heartRate = 44
  /\ dataWindow["live"]["P001"] = <<>>
  /\ anomalyHistory["live"]["P001"] = <<>>
  /\ Len(dataWindow["live"]["P002"]) = 2
  /\ Len(anomalyHistory["live"]["P002"]) > 0

\* |hr - mean| > 2.5 * max(std, 1) in integers: with n = Len(window), S and Q
\* the sums of heartRate - window[1].heartRate and of its squares,
\* n * (hr - mean) = d and (n * std)^2 = n*Q - S*S
HrDeviationExceeds(window, hr) ==
  LET n == Len(window)
      S == SumOf(Map(window, LAMBDA v : v.heartRate - window[1].heartRate))
      Q == SumOf(Map(window, LAMBDA v : (v.heartRate - window[1].heartRate)
                                          * (v.heartRate - window[1].heartRate)))
      d == n * (hr - window[1].heartRate) - S
      varN == n * Q - S * S
  IN IF varN <= n * n THEN 2 * Abs(d) > 5 * n ELSE 4 * d * d > 25 * varN

\* C26: on a window of at least 12 entries detectAnomalies returns an hr_anomaly
\* alert, of type warning, exactly when |hr - mean| > 2.5 * max(std, 1), mean
\* and std being those of heartRate over the whole window before the call.
C26_HrAnomalyMaxStdOne ==
  (Detected /\ Len(lastCall.window) >= MinStatWindow)
    => /\ HasAlert(result.alerts, "warning", "hr_anomaly")
            <=> HrDeviationExceeds(lastCall.window, lastCall.vitals.heartRate)
       /\ ~HasAlert(result.alerts, "critical", "hr_anomaly")
       /\ CountCategory(result.alerts, "hr_anomaly") <= 1

\* C27: on a window of at least 12 entries detectAnomalies returns a
\* spo2_declining warning exactly when the spo2 of the newest window entry minus
\* the spo2 of the 12th-newest is below -5; the sample's own spo2 plays no part.
C27_Spo2TrendOverLastTwelve ==
  (Detected /\ Len(lastCall.window) >= MinStatWindow)
    => LET window == lastCall.window
           n == Len(window)
           tenths == window[n].spo2 - window[n - 11].spo2
           \* the difference of the two Numbers is below -5; in tenths when
           \* the tenths are not exactly -50
           below == IF tenths # -50
                    THEN tenths < -50
                    ELSE FLess(FSub(Tenths(window[n].spo2), Tenths(window[n - 11].spo2)),
                               Number(-5))
       IN /\ HasAlert(result.alerts, "warning", "spo2_declining") <=> below
          /\ CountCategory(result.alerts, "spo2_declining")
               = (IF below THEN 1 ELSE 0)

\* the window fell by 5.1 over its last 12 entries while the sample reads 98.0
C27_Witness ==
  /\ Detected
  /\ Len(lastCall.window) = 13
  /\ lastCall.window[13].spo2 - lastCall.window[2].spo2 = -51
  /\ lastCall.vitals.spo2 = 980
  /\ HasAlert(result.alerts, "warning", "spo2_declining")

\* C28: the statistical and behavioural evaluators of detectAnomalies(S, x) see
\* S's window without x, and when the call has returned x is the newest entry
\* of S's window, with or without an alert.
C28_EvaluatedBeforeAppend ==
  Detected =>
    LET window == lastCall.window
        x == lastCall.vitals
        after == dataWindow[lastCall.detector][lastCall.patient]
    IN /\ Len(after) > 0 /\ after[Len(after)] = x
       /\ Len(window) < WindowCap => after = Append(window, x)
       /\ Len(window) < 12
            => /\ CountCategory(result.alerts, "hr_anomaly") = 0
               /\ CountCategory(result.alerts, "spo2_declining") = 0
       /\ Len(window) < 6
            => CountCategory(result.alerts, "nocturnal_activity") = 0
       /\ Len(window) <= 24
            => CountCategory(result.alerts, "sustained_inactivity") = 0
       /\ (Len(window) >= 12 /\ ConstantHeartRate(window))
            => (HasAlert(result.alerts, "warning", "hr_anomaly")
                  <=> 2 * Abs(x.heartRate - window[1].heartRate) > 5)
       /\ HasAlert(result.alerts, "warning", "nocturnal_activity")
            => Count(SliceLast(window, 12), LAMBDA v : v.motionLevel > 50) > 6

\* a heart rate far from that of the 11 samples before it: no alert, and the
\* sample has become the 12th entry
C28_Witness ==
  /\ Detected
  /\ Len(lastCall.window) = 11
  /\ lastCall.vitals.heartRate = 110
  /\ result.alerts = <<>>
  /\ dataWindow["live"][lastCall.patient] = Append(lastCall.window, lastCall.vitals)

\* a detectAnomalies call that found an alert is under way or has returned
FlaggedCall ==
  lastCall.op \in {"evaluated", "half", "detect"} /\ Len(result.alerts) > 0
\* the call's entry is the newest of the patient's anomaly history
HistoryPushed ==
  LET history == anomalyHistory[lastCall.detector][lastCall.patient]
  IN /\ Len(history) > 0
     /\ history[Len(history)] = Returned(lastCall.vitals, result)
\* the call's sample is the newest entry of the patient's window
WindowAppended ==
  LET window == dataWindow[lastCall.detector][lastCall.patient]
  IN /\ Len(window) = Len(lastCall.window) + 1
     /\ window[Len(window)] = lastCall.vitals

\* C29: within a detectAnomalies call that found an alert, the sample is
\* appended to the window before the anomaly-history entry is pushed: whenever
\* the entry is in the history the sample is in the window.
C29_WindowBeforeHistory == FlaggedCall => (HistoryPushed => WindowAppended)

\* the anomaly records the run has created
RunAnomalies ==
  IF run.pc \in {"loop", "context", "records", "done"}
  THEN {anomalies[i] : i \in (Len(run.anomaliesAtStart) + 1)..Len(anomalies)}
  ELSE {}
\* the stored alert-log entries of an anomaly record's patient and sample
LogsOf(a) ==
  SelectSeq(alertLogs, LAMBDA l : l.patientId = a.patientId /\ l.timestamp = a.detectedAt)
TaggedRetrospective(doc) == doc.metadata # <<>> /\ doc.metadata[1].retrospective

\* C22: in a run with updateDatabase = true every anomaly record the run has
\* stored comes with one stored alert-log entry per alert of the record, and
\* the record and its entries carry the retrospective tag.
C22_AnomalyWithItsAlertLogs ==
  run.options.updateDatabase
    => \A a \in RunAnomalies :
         /\ Len(LogsOf(a)) = Len(a.alerts)
         /\ TaggedRetrospective(a)
         /\ \A i \in 1..Len(LogsOf(a)) : TaggedRetrospective(LogsOf(a)[i])

\* C23: a run with updateDatabase = true creates at most one anomaly record
\* for a patient and a clock minute, however many flagged samples of the
\* patient fall in that minute.
C23_OneAnomalyPerKey ==
  run.options.updateDatabase
    => \A a, b \in RunAnomalies :
         AnomalyKey(a.patientId, a.detectedAt) = AnomalyKey(b.patientId, b.detectedAt)
           => a = b

\* the run is called (the request body passed validation) without a model
CalledWithoutModel ==
  /\ run.pc = "idle" /\ run'.pc # "idle"
  /\ ValidationError(run'.body) = "none"
  /\ ~HealthRecord["retro"]

C24_Step ==
  CalledWithoutModel
    => /\ run'.pc = "failed"
       /\ run'.response.error = "HealthRecord model not injected"
       /\ run' = [run EXCEPT !.pc = "failed", !.body = run'.body,
                             !.response = run'.response,
                             !.anomaliesAtStart = anomalies]
       /\ UNCHANGED <<dataWindow, anomalyHistory, dbVars>>

\* C24: detectRetrospectiveAnomalies on a detector without a HealthRecord
\* model throws at once: no query has been made, no patient reset, no window
\* or history changed, and the run goes no further.
C24_ThrowsWithoutModel ==
  /\ [][C24_Step]_vars
  /\ [](~HealthRecord["retro"] => run.pc \in {"idle", "rejected", "failed"})
  /\ [][run.pc = "failed" => run' = run]_vars

\* the run threw on a detector that holds samples and a history entry
C24_Witness ==
  /\ run.pc = "failed"
  /\ ~HealthRecord["retro"]
  /\ run.response.error = "HealthRecord model not injected"
  /\ Len(dataWindow["retro"]["P001"]) = 2
  /\ Len(anomalyHistory["retro"]["P001"]) > 0
  /\ run.results = EmptyResults

StoredVitals(p) == {RecordVitals(healthRecords[p][i]) : i \in 1..Len(healthRecords[p])}
FromStore(window, p) == \A i \in 1..Len(window) : window[i] \in StoredVitals(p)

\* the window and history of the monitoring service hold what its own calls
\* put there, and the replay window holds stored samples only
C21_State ==
  /\ \A p \in Patients :
       /\ Len(dataWindow["live"][p]) = calls[p]
       /\ \A i \in 1..calls[p] : dataWindow["live"][p][i].timestamp = i
       /\ anomalyHistory["live"][p] = returned[p]
       /\ FromStore(dataWindow["retro"][p], p)
  /\ (lastCall.op = "detect" /\ lastCall.detector = "retro")
       => FromStore(lastCall.window, lastCall.patient)

C21_Step ==
  run' # run => /\ dataWindow'["live"] = dataWindow["live"]
                /\ anomalyHistory'["live"] = anomalyHistory["live"]

\* C21: a run started through the route neither reads nor changes the window
\* and the anomaly history of live monitoring, for any patient, and no sample
\* of the live path enters the replay window.
C21_LiveStateUntouched == []C21_State /\ [][C21_Step]_vars

\* the service has just flagged a sample of P001 while the run, replaying
\* P001's stored samples, awaits the write of an anomaly
C21_Witness ==
  /\ run.pc = "anomaly write" /\ run.pid = "P001" /\ run.idx > 2
  /\ lastCall.op = "detect" /\ lastCall.detector = "live" /\ lastCall.patient = "P001"
  /\ Len(dataWindow["live"]["P001"]) = 2
  /\ Len(anomalyHistory["live"]["P001"]) > 0
  /\ Len(dataWindow["retro"]["P001"]) >= 2
  /\ Len(anomalyHistory["retro"]["P001"]) > 0

\* the last two calls were detectAnomalies calls with the same vitals, window,
\* thresholds and wall-clock hour
EqualCalls ==
  /\ lastCall.op = "detect" /\ lastCall.before.op = "detect"
  /\ At(lastCall.vitals, 0) = At(lastCall.before.vitals, 0)
  /\ lastCall.window = lastCall.before.window
  /\ Profile(lastCall.patient) = Profile(lastCall.before.patient)
  /\ lastCall.hour = lastCall.before.hour

\* C30: two detectAnomalies calls with equal vitals, window, thresholds and
\* wall-clock hour return the same alerts, severity and score, whatever the
\* timestamps of the samples, the anomaly histories and the other patients'
\* state; night alerts come at hours >= 22 or <= 6 only, day alerts at the
\* other hours only.
C30_SameInputsSameResult ==
  /\ EqualCalls => result = lastCall.before.result
  /\ Detected
       => /\ CountCategory(result.alerts, "nocturnal_activity") > 0
               => (lastCall.hour >= 22 \/ lastCall.hour <= 6)
          /\ CountCategory(result.alerts, "sustained_inactivity") > 0
               => ~(lastCall.hour >= 22 \/ lastCall.hour <= 6)
          /\ (/\ lastCall.vitals.motionLevel > 60
              /\ Len(lastCall.window) >= 6
              /\ Count(SliceLast(lastCall.window, 12), LAMBDA v : v.motionLevel > 50) > 6)
               => (CountCategory(result.alerts, "nocturnal_activity") > 0
                     <=> (lastCall.hour >= 22 \/ lastCall.hour <= 6))

\* the same sample at night on the same window, with another timestamp, after
\* another history and beside another state of P002: both calls returned the
\* same nocturnal_activity warning
C30_Witness ==
  /\ EqualCalls
  /\ lastCall.vitals.timestamp # lastCall.before.vitals.timestamp
  /\ lastCall.detector # lastCall.before.detector
  /\ HasAlert(result.alerts, "warning", "nocturnal_activity")
  /\ result = lastCall.before.result
  /\ Len(anomalyHistory["live"]["P001"]) # Len(anomalyHistory["retro"]["P001"])
  /\ dataWindow["live"]["P002"] # dataWindow["retro"]["P002"]

(***************************************************************************)
(* SpecContext: one run over a patient with up to MaxContext samples       *)
(* stored one minute apart, every fifth of them with a heart rate of 35,   *)
(* followed by three samples from 6000 on                                  *)
(***************************************************************************)
MaxContext == 52     \* stored samples before those of 6000 and later in SpecContext

ContextHistory(n) ==
  [i \in 1..n |->
     Record([Normal EXCEPT !.heartRate = IF i % 5 = 0 THEN 35 ELSE 72], 60 * i)]
  \o <<Record(Normal, 6000), Record([Normal EXCEPT !.heartRate = 35], 6060),
       Record(Normal, 6120)>>

ContextOptions ==
  {[patientId |-> p, startDate |-> from, endDate |-> <<>>, updateDatabase |-> TRUE] :
     p \in {"all", "P001"}, from \in {<<>>, <<1800>>, <<6000>>}}

InitContext ==
  /\ InitCommon
  /\ dataWindow = [d \in Detectors |-> EmptyByPatient]
  /\ calls = [p \in Patients |-> 0]
  /\ HealthRecord = [d \in Detectors |-> TRUE]
  /\ hour = 12
  /\ \E n \in 0..MaxContext :
       healthRecords = [p \in Patients |->
                          IF p = "P001" THEN ContextHistory(n) ELSE ShortHistory]

NextContext ==
  \/ \E options \in ContextOptions :
       /\ run.pc = "idle"
       /\ RetroStart(options)
  \/ RetroPatientsFound
  \/ RetroRecordsFound
  \/ RetroAnomaliesFound
  \/ RetroResetPatient
  \/ RetroLoadContext
  \/ RetroProcessRecord
  \/ RetroAnomalyCreated
  \/ RetroAlertLogsInserted
  \/ RetroEndPatient
  \/ RetroFinish

SpecContext == InitContext /\ [][NextContext]_vars

(***************************************************************************)
(* SpecStored: one run over four samples of a patient stored in any order  *)
(* (a collection keeps its documents in the order they were inserted)      *)
(***************************************************************************)
StoredSamples ==
  {Record(Normal, 300), Record([Normal EXCEPT !.heartRate = 35], 600),
   Record(Normal, 900), Record([Normal EXCEPT !.bodyTemperature = 388], 1200)}

StoredOrders ==
  {h \in [1..Cardinality(StoredSamples) -> StoredSamples] :
     \A i, j \in DOMAIN h : i # j => h[i] # h[j]}

StoredOptions ==
  {[patientId |-> p, startDate |-> from, endDate |-> <<>>, updateDatabase |-> TRUE] :
     p \in {"all", "P001"}, from \in {<<>>, <<600>>, <<900>>}}

InitStored ==
  /\ InitCommon
  /\ dataWindow = [d \in Detectors |-> EmptyByPatient]
  /\ calls = [p \in Patients |-> 0]
  /\ HealthRecord = [d \in Detectors |-> TRUE]
  /\ hour = 12
  /\ \E h \in StoredOrders :
       healthRecords = [p \in Patients |-> IF p = "P001" THEN h ELSE ShortHistory]

NextStored ==
  \/ \E options \in StoredOptions :
       /\ run.pc = "idle"
       /\ RetroStart(options)
  \/ RetroPatientsFound
  \/ RetroRecordsFound
  \/ RetroAnomaliesFound
  \/ RetroResetPatient
  \/ RetroLoadContext
  \/ RetroProcessRecord
  \/ RetroAnomalyCreated
  \/ RetroAlertLogsInserted
  \/ RetroEndPatient
  \/ RetroFinish

SpecStored == InitStored /\ [][NextStored]_vars

(***************************************************************************)
(* SpecPreview: a run with updateDatabase false, then the run with the     *)
(* same options and updateDatabase true on the same stored data at the     *)
(* same hour, every write of which succeeds                                *)
(***************************************************************************)
PreviewOptions == {o \in RetroOptions : ~o.updateDatabase}

NextPreview ==
  \/ \E options \in PreviewOptions :
       /\ run.pc = "idle"
       /\ RetroStart(options)
  \/ /\ run.pc = "done"
     /\ RetroStart([run.options EXCEPT !.updateDatabase = TRUE])
  \/ RetroPatientsFound
  \/ RetroRecordsFound
  \/ RetroAnomaliesFound
  \/ RetroResetPatient
  \/ RetroLoadContext
  \/ RetroProcessRecord
  \/ RetroAnomalyCreated
  \/ RetroAlertLogsInserted
  \/ RetroEndPatient
  \/ RetroFinish

SpecPreview == InitRetro /\ [][NextPreview]_vars

(***************************************************************************)
(* SpecConcurrent: two requests to the route at a time. Both runs use the  *)
(* route's detector and the same collections. A run executes until its     *)
(* next await, where the other one may go on: `run` is the run that is     *)
(* executing and `prevRun` the one that is suspended (or not yet received, *)
(* or finished).                                                           *)
(***************************************************************************)
ConcurrentOptions ==
  {[patientId |-> p, startDate |-> <<>>, endDate |-> <<>>, updateDatabase |-> u] :
     p \in {"all", "P001"}, u \in BOOLEAN}

\* a request is received: the run is called, down to the await of Patient.find
StartConcurrent(options) ==
  /\ run.pc = "idle"
  /\ HealthRecord[retrospectiveDetector]
  /\ run' = [NoRun EXCEPT !.pc = "patients query", !.options = options,
                          !.anomaliesAtStart = anomalies]
  /\ UNCHANGED <<detVars, hour, cycles, scoreVars, dbVars, prevRun, calls, returned, loaded,
                 loading, lastCall, steps>>

\* the executing run is at an await (or has returned, or its request is yet to
\* come) and the event loop goes on with the other run
Yield ==
  /\ AtAwait(run)
  /\ run # prevRun
  /\ run' = prevRun
  /\ prevRun' = run
  /\ UNCHANGED <<detVars, hour, cycles, scoreVars, dbVars, calls, returned, loaded, loading, lastCall, steps>>

NextConcurrent ==
  \/ \E options \in ConcurrentOptions : StartConcurrent(options)
  \/ RetroPatientsFound
  \/ RetroRecordsFound
  \/ RetroAnomaliesFound
  \/ RetroResetPatient
  \/ RetroLoadContext
  \/ RetroProcessRecord
  \/ RetroAnomalyCreated
  \/ RetroAlertLogsInserted
  \/ RetroEndPatient
  \/ RetroFinish
  \/ Yield

SpecConcurrent == InitRetro /\ [][NextConcurrent]_vars

(***************************************************************************)
(* SpecDelay: one run with updateDatabase true over the samples of         *)
(* BradyHistory, for one of which the monitoring service has stored an     *)
(* anomaly some seconds after the sample was generated                     *)
(***************************************************************************)
\* seconds between generateVitals and the new Anomaly(...) of handleAnomaly,
\* which are separated by the awaits of postToHttpbin and saveHealthRecord
SaveDelays == {0, 1, 30, 60}

\* handleAnomaly: new Anomaly({patientId, severity, alerts, anomalyScore,
\* recordId}); detectedAt is left to its default, Date.now
LiveAnomalyFor(pid, record, detection, now) ==
  [id |-> 1, patientId |-> pid, severity |-> detection.severity, detectedAt |-> now,
   alerts |-> detection.alerts, acknowledged |-> FALSE,
   anomalyScore |-> <<detection.normalizedScore>>, metadata |-> <<>>,
   recordId |-> record.recordedAt]

DelayOptions == {o \in RetroOptions : o.updateDatabase}

InitDelay ==
  /\ cycles = NoCycles
  /\ dataWindow = [d \in Detectors |-> EmptyByPatient]
  /\ anomalyHistory = [d \in Detectors |-> EmptyByPatient]
  /\ HealthRecord = [d \in Detectors |-> TRUE]
  /\ result = NoResult
  /\ hour = 12
  /\ alertList = <<>>
  /\ scoreOut = calculateAnomalyScore(alertList)
  /\ patients = [p \in Patients |-> "active"]
  /\ \E h2 \in {<<>>, ShortHistory} :
       healthRecords = [p \in Patients |-> IF p = "P001" THEN BradyHistory ELSE h2]
  /\ \E i \in 2..Len(BradyHistory), delay \in SaveDelays :
       anomalies =
         <<LiveAnomalyFor("P001", BradyHistory[i],
                          DetectionOf(<<>>, RecordVitals(BradyHistory[i]),
                                      Profile("P001"), hour),
                          BradyHistory[i].recordedAt + delay)>>
  /\ alertLogs = <<>>
  /\ run = NoRun
  /\ prevRun = NoRun
  /\ calls = [p \in Patients |-> 0]
  /\ loaded = [p \in Patients |-> FALSE]
  /\ loading = [d \in Detectors |-> EmptyByPatient]
  /\ returned = EmptyByPatient
  /\ lastCall = NoCall
  /\ steps = 0

NextDelay ==
  \/ \E options \in DelayOptions :
       /\ run.pc = "idle"
       /\ RetroStart(options)
  \/ RetroPatientsFound
  \/ RetroRecordsFound
  \/ RetroAnomaliesFound
  \/ RetroResetPatient
  \/ RetroLoadContext
  \/ RetroProcessRecord
  \/ RetroAnomalyCreated
  \/ RetroAlertLogsInserted
  \/ RetroEndPatient
  \/ RetroFinish

SpecDelay == InitDelay /\ [][NextDelay]_vars

(***************************************************************************)
(* SpecCycles: the monitoring service. setInterval calls                   *)
(* performHealthCheck without waiting for the call before it, so up to     *)
(* MaxCycles calls are in progress at a time, each suspended at its awaits *)
(* (postToHttpbin, saveHealthRecord, the saves of handleAnomaly) in        *)
(* between.                                                                *)
(***************************************************************************)
\* const vitals = this.dataGenerator.generateVitals(patient.id), stamped with
\* the time, and postToHttpbin called
Generated(cyc, c, i, v) ==
  [cyc EXCEPT !.clock = @ + 1,
              !.of[c] = [pc |-> "post", i |-> i, vitals |-> At(v, cyc.clock + 1),
                         detection |-> NoResult, now |-> 0, k |-> 0]]

\* the for loop goes on with the next patient, or the health check ends
NextPatient(cyc, c, v) ==
  IF cyc.of[c].i < Len(PatientList)
  THEN Generated(cyc, c, cyc.of[c].i + 1, v)
  ELSE [cyc EXCEPT !.of[c].pc = "done"]

\* the interval fires (the first check is called by startMonitoring)
performHealthCheck(c, v) ==
  /\ cycles.of[c].pc = "waiting"
  /\ \A b \in CycleIds : b < c => cycles.of[b].pc # "waiting"
  /\ cycles' = Generated(cycles, c, 1, v)
  /\ UNCHANGED <<detVars, hour, scoreVars, dbVars, runVars, calls, returned, loaded, loading,
                 lastCall, steps>>

\* postToHttpbin answers (an error of the request is caught and answered too):
\* saveHealthRecord is called
PostAnswered(c) ==
  /\ cycles.of[c].pc = "post"
  /\ cycles' = [cycles EXCEPT !.of[c].pc = "save"]
  /\ UNCHANGED <<detVars, hour, scoreVars, dbVars, runVars, calls, returned, loaded, loading,
                 lastCall, steps>>

\* record.save() answers: the record is stored, detectAnomalies is called with
\* the vitals, and handleAnomaly, down to the await of anomaly.save(), or the
\* next patient follows
RecordSaved(c, v) ==
  /\ cycles.of[c].pc = "save"
  /\ LET p == PatientList[cycles.of[c].i]
         vitals == cycles.of[c].vitals
         detection == DetectionOf(dataWindow["live"][p], vitals, Profile(p), hour)
     IN /\ healthRecords' = [healthRecords EXCEPT
                               ![p] = Append(@, Record(vitals, vitals.timestamp))]
        /\ anomalyHistory' = [anomalyHistory EXCEPT
                                !["live"][p] = PushHistory(@, vitals, detection)]
        /\ dataWindow' = [dataWindow EXCEPT !["live"][p] = PushWindow(@, vitals)]
        /\ result' = detection
        /\ calls' = [calls EXCEPT ![p] = @ + 1]
        /\ returned' = IF Len(detection.alerts) > 0
                       THEN [returned EXCEPT ![p] = Append(@, Returned(vitals, detection))]
                       ELSE returned
        /\ lastCall' = Call("detect", "live", p, vitals)
        /\ cycles' = IF detection.isAnomaly
                     THEN [cycles EXCEPT !.of[c].pc = "handle",
                                         !.of[c].detection = detection,
                                         !.of[c].now = cycles.clock]
                     ELSE NextPatient(cycles, c, v)
  /\ UNCHANGED <<HealthRecord, hour, scoreVars, patients, anomalies, alertLogs, runVars,
                 loaded, loading, steps>>

\* record.save() rejects: the catch of the loop body logs the error
SaveRejected(c, v) ==
  /\ cycles.of[c].pc = "save"
  /\ cycles' = NextPatient(cycles, c, v)
  /\ UNCHANGED <<detVars, hour, scoreVars, dbVars, runVars, calls, returned, loaded, loading,
                 lastCall, steps>>

\* new AlertLog({patientId, alertType, message, severity, actionTaken}); its
\* timestamp is left to its default, Date.now
LiveAlertLog(pid, alert, now) ==
  [patientId |-> pid, alertType |-> <<alert.category>>,
   severity |-> <<alert.type>>, actionTaken |-> <<"alert_triggered">>,
   timestamp |-> now, metadata |-> <<>>]

\* anomaly.save() answers: the anomaly is stored, and the log of the first
\* alert is built and its save awaited
AnomalySaved(c) ==
  /\ cycles.of[c].pc = "handle"
  /\ LET p == PatientList[cycles.of[c].i]
         vitals == cycles.of[c].vitals
     IN anomalies' = Append(anomalies,
                            [LiveAnomalyFor(p, Record(vitals, vitals.timestamp),
                                            cycles.of[c].detection, cycles.of[c].now)
                               EXCEPT !.id = Len(anomalies) + 1])
  /\ cycles' = [cycles EXCEPT !.of[c].pc = "alert", !.of[c].k = 1,
                              !.of[c].now = cycles.clock]
  /\ UNCHANGED <<detVars, hour, scoreVars, patients, healthRecords, alertLogs, runVars,
                 calls, returned, loaded, loading, lastCall, steps>>

\* the save of an alert log answers: it is stored, and the log of the next
\* alert is built and its save awaited, or handleAnomaly returns and the next
\* patient follows
AlertLogSaved(c, v) ==
  /\ cycles.of[c].pc = "alert"
  /\ LET p == PatientList[cycles.of[c].i]
         alerts == cycles.of[c].detection.alerts
         k == cycles.of[c].k
     IN /\ alertLogs' = Append(alertLogs, LiveAlertLog(p, alerts[k], cycles.of[c].now))
        /\ cycles' = IF k < Len(alerts)
                     THEN [cycles EXCEPT !.of[c].k = k + 1, !.of[c].now = cycles.clock]
                     ELSE NextPatient(cycles, c, v)
  /\ UNCHANGED <<detVars, hour, scoreVars, patients, healthRecords, anomalies, runVars,
                 calls, returned, loaded, loading, lastCall, steps>>

\* a save of handleAnomaly rejects: its catch throws the error on, and the
\* catch of the loop body logs it
HandleRejected(c, v) ==
  /\ cycles.of[c].pc \in {"handle", "alert"}
  /\ cycles' = NextPatient(cycles, c, v)
  /\ UNCHANGED <<detVars, hour, scoreVars, dbVars, runVars, calls, returned, loaded, loading,
                 lastCall, steps>>

InitCycles ==
  /\ InitCommon
  /\ dataWindow = [d \in Detectors |-> EmptyByPatient]
  /\ calls = [p \in Patients |-> 0]
  /\ HealthRecord = [d \in Detectors |-> TRUE]
  /\ hour = 12
  /\ healthRecords = EmptyByPatient

NextCycles ==
  \/ \E c \in CycleIds, v \in ResetInputs : performHealthCheck(c, v)
  \/ \E c \in CycleIds : PostAnswered(c)
  \/ \E c \in CycleIds, v \in ResetInputs : RecordSaved(c, v)
  \/ \E c \in CycleIds, v \in ResetInputs : SaveRejected(c, v)
  \/ \E c \in CycleIds : AnomalySaved(c)
  \/ \E c \in CycleIds, v \in ResetInputs : AlertLogSaved(c, v)
  \/ \E c \in CycleIds, v \in ResetInputs : HandleRejected(c, v)

SpecCycles == InitCycles /\ [][NextCycles]_vars

(***************************************************************************)
(* Claims C31..C40                                                         *)
(***************************************************************************)
\* C31: the behavioural evaluator returns nothing on a window of fewer than 6
\* entries; otherwise sustained_inactivity (warning) exactly when it is day, the
\* mean motionLevel of the last 6 entries is below 0.1, the window is longer
\* than 24 and the last 12 entries are all below 0.15, and nocturnal_activity
\* (warning) exactly when it is night, the sample's motionLevel is above 0.6
\* and more than 6 of the last 12 entries are above 0.5; never both.
C31_BehaviouralAlerts ==
  Detected =>
    LET window == lastCall.window
        n == Len(window)
        night == lastCall.hour >= 22 \/ lastCall.hour <= 6
        last12 == {i \in 1..n : i > n - 12}
        sum6 == SumOf([i \in 1..Min(6, n) |-> window[n - Min(6, n) + i].motionLevel])
        inactive == /\ ~night
                    /\ sum6 < 10 * 6
                    /\ n > 24
                    /\ \A i \in last12 : window[i].motionLevel < 15
        wandering == /\ night
                     /\ lastCall.vitals.motionLevel > 60
                     /\ Cardinality({i \in last12 : window[i].motionLevel > 50}) > 6
    IN /\ CountCategory(result.alerts, "sustained_inactivity")
            = (IF n >= 6 /\ inactive THEN 1 ELSE 0)
       /\ CountCategory(result.alerts, "nocturnal_activity")
            = (IF n >= 6 /\ wandering THEN 1 ELSE 0)
       /\ \A i \in 1..Len(result.alerts) :
            result.alerts[i].category \in {"sustained_inactivity", "nocturnal_activity"}
              => result.alerts[i].type = "warning"
       /\ ~(/\ CountCategory(result.alerts, "sustained_inactivity") > 0
            /\ CountCategory(result.alerts, "nocturnal_activity") > 0)

\* the stored samples of p recorded before the first sample the run replays
EarlierSamples(p) ==
  {i \in 1..Len(healthRecords[p]) :
     healthRecords[p][i].recordedAt < run.recordsByPatient[p][1].recordedAt}
\* those of them with fewer than 50 of them after it
ContextSamples(p) ==
  {i \in EarlierSamples(p) : Cardinality({j \in EarlierSamples(p) : j > i}) < 50}
Replaying == run.pc = "records"

\* during the replay of a patient the window starts with the context samples,
\* oldest first, and the calls, history entries and anomaly records are those
\* of replayed samples
C32_State ==
  /\ Replaying
       => LET p == run.pid
              window == dataWindow["retro"][p]
              context == ContextSamples(p)
              k == Cardinality(context)
              history == anomalyHistory["retro"][p]
          IN /\ k <= 50
             /\ Len(window) = k + run.idx - 1
             /\ \A i \in 1..k :
                  /\ window[i].timestamp < run.recordsByPatient[p][1].recordedAt
                  /\ \E j \in context :
                       /\ window[i] = RecordVitals(healthRecords[p][j])
                       /\ Cardinality({c \in context : c < j}) = i - 1
             /\ \A i \in 1..Len(history) :
                  history[i].timestamp >= run.recordsByPatient[p][1].recordedAt
  /\ \A a \in RunAnomalies :
       \E i \in 1..Len(run.recordsByPatient[a.patientId]) :
         run.recordsByPatient[a.patientId][i].recordedAt = a.detectedAt

\* the steps that reset the patient and load the context call no
\* detectAnomalies and count nothing
C32_Step ==
  (run.pc \in {"loop", "context"} /\ run'.pc \in {"context", "records"})
    => /\ run'.results.processed = run.results.processed
       /\ run'.results.newAnomaliesDetected = run.results.newAnomaliesDetected
       /\ anomalyHistory'["retro"][run'.pid] = <<>>
       /\ UNCHANGED <<lastCall, result, anomalies, alertLogs>>

\* C32: for each patient of a run at most 50 stored samples, those just before
\* the patient's first replayed sample, are put in the window oldest first
\* before the replay, by appending only: they are not counted as processed and
\* give no alert, no history entry and no anomaly record.
C32_ContextAppendedOnly == []C32_State /\ [][C32_Step]_vars

\* 52 earlier samples, flagged ones among them: the window starts with the 50
\* newest and the replay has stored one anomaly record
C32_Witness ==
  /\ Replaying /\ run.pid = "P001" /\ run.idx = 3
  /\ Cardinality(EarlierSamples("P001")) = 52
  /\ Len(dataWindow["retro"]["P001"]) = 52
  /\ dataWindow["retro"]["P001"][1].timestamp = 180
  /\ dataWindow["retro"]["P001"][3].heartRate = 35
  /\ run.results.processed = 2
  /\ Len(anomalies) = 1

\* the stored samples of p that the run is to replay
InRangeSamples(p) ==
  {r \in {healthRecords[p][i] : i \in 1..Len(healthRecords[p])} :
     /\ run.options.patientId \in {"all", p}
     /\ InRange(r.recordedAt, run.options)}

Ascending(window) ==
  \A i, j \in 1..Len(window) : i < j => window[i].timestamp <= window[j].timestamp

\* the sample a replay step passes is the in-range sample with as many in-range
\* samples before it as have been passed
C33_Step ==
  ReplayStep
    => /\ lastCall'.op = "detect"
       /\ lastCall'.detector = retrospectiveDetector
       /\ lastCall'.patient = run.pid
       /\ \E r \in InRangeSamples(run.pid) :
            /\ lastCall'.vitals = RecordVitals(r)
            /\ Cardinality({e \in InRangeSamples(run.pid) :
                              e.recordedAt < r.recordedAt}) = run.idx - 1

\* the replay of a patient ends when all its in-range samples have been passed
C33_End ==
  (run.pc = "records" /\ run'.pc = "loop")
    => run.idx - 1 = Cardinality(InRangeSamples(run.pid))

\* C33: in a run the in-range samples of each patient are passed to
\* detectAnomalies one by one in ascending order of their timestamps, each
\* once, and during the replay the patient's window is ordered by timestamp.
C33_ReplayAscending ==
  /\ [](Replaying => Ascending(dataWindow[retrospectiveDetector][run.pid]))
  /\ [][C33_Step /\ C33_End]_vars

\* the newest sample was stored first; the run from 600 on has passed its
\* three samples after the one context sample
C33_Witness ==
  /\ Replaying /\ run.pid = "P001" /\ run.idx = 4
  /\ healthRecords["P001"][1].recordedAt = 1200
  /\ healthRecords["P001"][4].recordedAt = 600
  /\ run.options.startDate = <<600>>
  /\ Len(dataWindow[retrospectiveDetector]["P001"]) = 4
  /\ dataWindow[retrospectiveDetector]["P001"][1].timestamp = 300
  /\ lastCall.vitals.timestamp = 1200

\* C34: in the summary a run returns, newAnomaliesDetected = criticalCount +
\* warningCount, and for every patient newAnomalies = criticalAnomalies +
\* warningAnomalies.
C34_NewIsCriticalPlusWarning ==
  run.pc = "done"
    => /\ run.results.newAnomaliesDetected
            = run.results.criticalCount + run.results.warningCount
       /\ \A p \in DOMAIN run.results.patientsSummary :
            run.results.patientsSummary[p].newAnomalies
              = run.results.patientsSummary[p].criticalAnomalies
                  + run.results.patientsSummary[p].warningAnomalies

\* the sum of a counter over the entries of patientsSummary
SummarySum(summary, Field(_)) ==
  LET Of(p) == IF p \in DOMAIN summary THEN Field(summary[p]) ELSE 0
  IN Of("P001") + Of("P002")

RecordsProcessedOf(entry) == entry.recordsProcessed
NewAnomaliesOf(entry) == entry.newAnomalies

\* C35: in the summary a run returns, with or without entries in errors,
\* recordsProcessed is the sum of the patients' recordsProcessed (the number
\* of samples passed to detectAnomalies) and newAnomaliesDetected is the sum
\* of the patients' newAnomalies.
C35_TotalsAreSums ==
  run.pc = "done"
    => /\ run.results.processed
            = SummarySum(run.results.patientsSummary, RecordsProcessedOf)
       /\ run.results.newAnomaliesDetected
            = SummarySum(run.results.patientsSummary, NewAnomaliesOf)

\* C36: on the same stored data and options, the run with updateDatabase false
\* reports the newAnomaliesDetected, criticalCount and warningCount of the run
\* with updateDatabase true whose writes all succeed.
C36_DryRunPreviews ==
  (/\ run.pc = "done" /\ prevRun.pc = "done"
   /\ ~prevRun.options.updateDatabase /\ run.options.updateDatabase)
    => /\ prevRun.results.newAnomaliesDetected = run.results.newAnomaliesDetected
       /\ prevRun.results.criticalCount = run.results.criticalCount
       /\ prevRun.results.warningCount = run.results.warningCount

\* the window the executing run would replay its next sample against if it
\* ran alone: the context samples and the samples it has passed
AloneWindow ==
  LET records == run.recordsByPatient[run.pid]
  IN PushAll(<<>>, ContextRecords(healthRecords[run.pid], records[1]) \o SubSeq(records, 1, run.idx - 1))

\* a sample is replayed by the executing run
ConcurrentReplay == ReplayStep /\ lastCall' # lastCall /\ prevRun' = prevRun

C37_Step ==
  ConcurrentReplay
    => /\ lastCall'.window = AloneWindow
       /\ result' = DetectionOf(AloneWindow, lastCall'.vitals, Profile(run.pid), hour)

\* C37: when two runs execute concurrently on the route's detector, every
\* sample a run replays is evaluated against the window the run would have
\* alone, with the detection it would get alone: no reset or append of the
\* other run shows in it.
C37_RunsIsolated == [][C37_Step]_vars

\* two stored anomalies of one key
DuplicateKey ==
  \E i, j \in 1..Len(anomalies) :
    /\ i < j
    /\ AnomalyKey(anomalies[i].patientId, anomalies[i].detectedAt)
         = AnomalyKey(anomalies[j].patientId, anomalies[j].detectedAt)

\* C38: two runs with updateDatabase true that execute concurrently over the
\* same stored samples never store two anomaly records of one key.
C38_NoDuplicateKeyConcurrent ==
  (/\ run.pc # "idle" /\ prevRun.pc # "idle"
   /\ run.options.updateDatabase /\ prevRun.options.updateDatabase)
    => ~DuplicateKey

\* the anomaly records the run has created
CreatedByRun ==
  {anomalies[i] : i \in (Len(run.anomaliesAtStart) + 1)..Len(anomalies)}

\* C40: when the monitoring service has stored an anomaly for a sample, a run
\* with updateDatabase true creates no anomaly record for that sample,
\* whatever the time between the sample and its anomaly and whatever the
\* date range of the run.
C40_NoSecondRecordForLiveAnomaly ==
  (run.pc # "idle" /\ run.options.updateDatabase)
    => \A i \in 1..Len(run.anomaliesAtStart) :
         ~\E a \in CreatedByRun :
            /\ a.patientId = anomalies[i].patientId
            /\ a.detectedAt = anomalies[i].recordId

\* C39: in the monitoring service the samples of a patient reach
\* detectAnomalies, and so the window, in the order they were generated, also
\* when a health check is still awaiting I/O as the next one starts.
C39_LiveWindowInGenerationOrder ==
  \A p \in Patients : Ascending(dataWindow["live"][p])

====
